---------------------------- MODULE Spec2Model ----------------------------
(***************************************************************************)
(* Appointment lifecycle and slot resolution of the auto-repair workshop   *)
(* application.  Two stores are modelled, as in the source: the hosted     *)
(* relational store (tables appointments and tasks, with the row-level     *)
(* policies of the migration) and the browser's localStorage key           *)
(* 'appointments' used by the local-storage components.                    *)
(***************************************************************************)
EXTENDS Integers, Sequences, FiniteSets, TLC

(***************************************************************************)
(* Bounds of the model.                                                    *)
(***************************************************************************)
MaxAppts == 2          \* rows of the appointments table
MaxLocal == 2          \* entries of localStorage 'appointments'
MaxTasks == 2          \* rows of the tasks table
MaxBooked == 3         \* rows of the appointments table in the booking runs
MaxShared == 1         \* appointments two admin sessions work on at once
MaxSlots == 2          \* entries of the slot list offered to bookings
MaxRun == 10           \* consecutive half hours held in a drawn store
MaxFail == 2           \* latest availability query of a call that may fail
MaxFetch == 1          \* profile fetches of the AuthProvider in flight at once

(***************************************************************************)
(* Identities.  get_user_role (part_000:57-64) reads the role from the     *)
(* caller's profile; here the role is fixed per identity.                  *)
(***************************************************************************)
Customers   == {"c1", "c2"}
Admins      == {"a1", "a2"}
Technicians == {"t1"}
\* t2: a second technician profile, registered under the full name of t1; the
\* Assign dialogs of the hosted store do not offer it in the runs below
Namesakes   == {"t2"}
TechnicianSessions == Technicians \cup Namesakes
Users       == Customers \cup Admins \cup TechnicianSessions
\* n1: a person without an account, who may register
Registrants == {"n1"}
Accounts    == Users \cup Registrants
Dates       == {1, 2}

NULL == "null"
NullHours == -1

appointment_status == {"pending", "approved", "rejected", "in_progress", "completed"}

(***************************************************************************)
(* Times.  A display time "H:MM AM/PM" is the record of its three parts;   *)
(* a stored time "HH:MM:00" is the record of its hour and minute fields.   *)
(***************************************************************************)
Disp(h, m, p) == [h |-> h, m |-> m, p |-> p]
NoTime == [h |-> 0, m |-> 0, p |-> "-"]

timeSlots ==
    << Disp(8, 0, "AM"), Disp(9, 0, "AM"), Disp(10, 0, "AM"), Disp(11, 0, "AM"),
       Disp(1, 0, "PM"), Disp(2, 0, "PM"), Disp(3, 0, "PM"), Disp(4, 0, "PM"),
       Disp(5, 0, "PM") >>

SlotSet == {timeSlots[i] : i \in 1..Len(timeSlots)}

convertTimeToDBFormat(timeString) ==
    LET hours == timeString.h
        hour24 == IF timeString.p = "PM" /\ hours # 12 THEN hours + 12
                  ELSE IF timeString.p = "AM" /\ hours = 12 THEN 0
                  ELSE hours
    IN  [hh |-> hour24, mm |-> timeString.m, ss |-> 0]

\* the delayed time with noon labelled AM
calculateDelayedTime_NoonAM(originalTime) ==
    LET dbTime == convertTimeToDBFormat(originalTime)
        m30 == dbTime.mm + 30
        newMinutes == IF m30 >= 60 THEN m30 - 60 ELSE m30
        newHours == IF m30 >= 60 THEN dbTime.hh + 1 ELSE dbTime.hh
        period == IF newHours > 12 THEN "PM" ELSE "AM"
        dh == IF newHours > 12 THEN newHours - 12 ELSE newHours
        displayHour == IF dh = 0 THEN 12 ELSE dh
    IN  Disp(displayHour, newMinutes, period)

calculateDelayedTime(originalTime) ==
    LET dbTime == convertTimeToDBFormat(originalTime)
        m30 == dbTime.mm + 30
        newMinutes == IF m30 >= 60 THEN m30 - 60 ELSE m30
        newHours == IF m30 >= 60 THEN dbTime.hh + 1 ELSE dbTime.hh
        period == IF newHours >= 12 THEN "PM" ELSE "AM"
        dh == IF newHours > 12 THEN newHours - 12 ELSE newHours
        displayHour == IF dh = 0 THEN 12 ELSE dh
    IN  Disp(displayHour, newMinutes, period)

\* The TIME column's input conversion of a 12-hour literal (pending variant
\* inserts the display string as it is).
TimeColumnInput(timeString) ==
    [hh |-> (timeString.h % 12) + (IF timeString.p = "PM" THEN 12 ELSE 0),
     mm |-> timeString.m, ss |-> 0]

(***************************************************************************)
(* State.                                                                  *)
(***************************************************************************)
VARIABLES
    appointments,   \* table public.appointments: sequence of rows, id = index
    tasks,          \* table public.tasks: sequence of rows
    book,           \* auto-approval booking form of each customer
    overlapped,     \* history: two bookings were in flight at the same time
    lastBook,       \* history: the latest booking submission and whether it
                    \* reached the store
    adminList,      \* AppointmentManagement state `appointments` of each admin
    adminError,     \* AppointmentManagement state `error` of each admin
    adminOp,        \* the handler in flight in each admin's session
    localStore,     \* localStorage 'appointments'
    localAdmin,     \* local-storage AppointmentManagement state `appointments`
    techList,       \* TechnicianDashboard state `assignments` of each technician
    res,            \* last call of findAvailableTimeSlot and its result
    toast,          \* the notification the latest step showed, if any
    profiles,       \* table public.profiles, by user_id
    sbSession,      \* the session the Supabase client of the browser holds
    auth,           \* AuthProvider state: session, user, profile
    authOp,         \* the login or register call in flight, and the last result
    fetches,        \* profile fetches of the AuthProvider in flight
    techAdmin,      \* TechnicianManagement state `technicians` of the admin
    request         \* history: the latest request made of the store directly

vars == << appointments, tasks, book, overlapped, lastBook, adminList, adminError, adminOp,
           localStore, localAdmin, techList, res, toast,
           profiles, sbSession, auth, authOp, fetches, techAdmin, request >>

dbVars    == << appointments, tasks >>
bookVars  == << book, overlapped, lastBook >>
adminVars == << adminList, adminError, adminOp >>
localVars == << localStore, localAdmin, techList >>
authVars  == << sbSession, auth, authOp, fetches, techAdmin >>
appVars   == << dbVars, bookVars, adminVars, localVars, res >>

(***************************************************************************)
(* Profiles.  A row of public.profiles is kept under its user_id.          *)
(***************************************************************************)
NoProfile ==
    [exists |-> FALSE, role |-> NULL, is_approved |-> FALSE,
     full_name |-> "", phone |-> ""]

Profile(role, is_approved, full_name, phone) ==
    [exists |-> TRUE, role |-> role, is_approved |-> is_approved,
     full_name |-> full_name, phone |-> phone]

\* the profiles the runs start with
SeedProfile(u) ==
    IF u \in Admins THEN Profile("admin", TRUE, "John Admin", "")
    ELSE IF u \in TechnicianSessions THEN Profile("technician", TRUE, "Mike Johnson", "")
    ELSE IF u \in Customers THEN Profile("customer", TRUE, "Sarah Customer", "")
    ELSE NoProfile

get_user_role(u) == IF u \in Accounts THEN profiles[u].role ELSE NULL

is_user_approved(u) == u \in Accounts /\ profiles[u].exists /\ profiles[u].is_approved

(***************************************************************************)
(* Row-level policies of the appointments table.                           *)
(***************************************************************************)
\* "Customers can view their own appointments, admins and technicians can view all"
CanSelectAppointment(uid, row) ==
    \/ row.customer_id = uid
    \/ row.technician_id = uid
    \/ get_user_role(uid) = "admin"

\* the policy without its role condition
CanInsertAppointment_AnyRole(uid, row) ==
    row.customer_id = uid

\* "Customers can create appointments"
CanInsertAppointment(uid, row) ==
    /\ row.customer_id = uid
    /\ get_user_role(uid) = "customer"

\* "Admins can update any appointment"
AdminCanUpdateAppointment(uid) == get_user_role(uid) = "admin"

\* toast({title, ...}) by a component of user `to`
Shown(to, title) == [to |-> to, title |-> title]
NoToast == [to |-> "", title |-> ""]

NoNotes == [kind |-> "null", original |-> NoTime, text |-> ""]

(***************************************************************************)
(* Slot availability and the resolver (auto-approval booking component).   *)
(***************************************************************************)
BlockingStatuses == {"approved", "pending"}

\* The rows the availability query returns to caller uid.
ExistingAppointments(uid, date, dbTime) ==
    {i \in 1..Len(appointments) :
        /\ CanSelectAppointment(uid, appointments[i])
        /\ appointments[i].appointment_date = date
        /\ appointments[i].appointment_time = dbTime
        /\ appointments[i].status \in BlockingStatuses}

checkTimeSlotAvailability(uid, date, time) ==
    Cardinality(ExistingAppointments(uid, date, convertTimeToDBFormat(time))) = 0

\* Whether some stored appointment of any customer holds the slot.
SlotOccupied(date, dbTime) ==
    \E i \in 1..Len(appointments) :
        /\ appointments[i].appointment_date = date
        /\ appointments[i].appointment_time = dbTime
        /\ appointments[i].status \in {"pending", "approved"}

maxAttempts == 10

\* The result of a call: ok with time and isOriginal, or the error thrown.
\* probed (the candidates handed to the availability check, in order) and
\* checks (their number) are history fields.
Returned(time, isOriginal) ==
    [ok |-> TRUE, time |-> time, isOriginal |-> isOriginal,
     checks |-> 1, probed |-> << time >>, error |-> ""]

Thrown(error, probed) ==
    [ok |-> FALSE, time |-> NoTime, isOriginal |-> FALSE,
     checks |-> Len(probed), probed |-> probed, error |-> error]

\* r, reached after candidate `time` was checked and found occupied
After(time, r) ==
    [r EXCEPT !.checks = @ + 1, !.probed = << time >> \o @]

\* The while loop of findAvailableTimeSlot, entered with currentTime and
\* attempts.  failAt is the number of the availability query that ends with a
\* store error (0: none does).
RECURSIVE findLoop(_, _, _, _, _)
\* the loop without the business-hours ceiling
findLoop_NoCeiling(uid, date, currentTime, attempts, failAt) ==
    IF ~(attempts < maxAttempts)
    THEN Thrown("Unable to find an available time slot", << >>)
    ELSE IF failAt = attempts + 1
    THEN Thrown("store error", << currentTime >>)
    ELSE IF checkTimeSlotAvailability(uid, date, currentTime)
    THEN Returned(currentTime, attempts = 0)
    ELSE After(currentTime,
               findLoop(uid, date, calculateDelayedTime(currentTime), attempts + 1, failAt))

\* the loop advancing a full hour after an occupied candidate
findLoop_HourStep(uid, date, currentTime, attempts, failAt) ==
    IF ~(attempts < maxAttempts)
    THEN Thrown("Unable to find an available time slot", << >>)
    ELSE IF failAt = attempts + 1
    THEN Thrown("store error", << currentTime >>)
    ELSE IF checkTimeSlotAvailability(uid, date, currentTime)
    THEN Returned(currentTime, attempts = 0)
    ELSE LET next == calculateDelayedTime(calculateDelayedTime(currentTime))
             hours == convertTimeToDBFormat(next).hh
         IN  IF hours >= 17
             THEN Thrown("No available time slots for this date", << currentTime >>)
             ELSE After(currentTime, findLoop(uid, date, next, attempts + 1, failAt))

findLoop(uid, date, currentTime, attempts, failAt) ==
    IF ~(attempts < maxAttempts)
    THEN Thrown("Unable to find an available time slot", << >>)
    ELSE IF failAt = attempts + 1
    THEN Thrown("store error", << currentTime >>)
    ELSE IF checkTimeSlotAvailability(uid, date, currentTime)
    THEN Returned(currentTime, attempts = 0)
    ELSE LET next == calculateDelayedTime(currentTime)
             hours == convertTimeToDBFormat(next).hh
         IN  IF hours >= 17
             THEN Thrown("No available time slots for this date", << currentTime >>)
             ELSE After(currentTime, findLoop(uid, date, next, attempts + 1, failAt))

findAvailableTimeSlot(uid, date, originalTime, failAt) ==
    findLoop(uid, date, originalTime, 0, failAt)

(***************************************************************************)
(* Booking, auto-approval variant (AppointmentBooking.handleSubmit).  The  *)
(* handler awaits the availability query and then the insert; each await   *)
(* is one step, so that bookings of different customers interleave as the  *)
(* store sees them.  Rows carry three history fields that the program does *)
(* not store: mode, req (the requested display time) and freeSeen (the     *)
(* display times the availability check reported free in that booking),    *)
(* and resolvable (whether findAvailableTimeSlot succeeds on the store the *)
(* check saw).                                                             *)
(***************************************************************************)
\* The booking form apart from date and time.  fault and reason are kept by
\* their lengths.  An unset date is 0, an unset time is NoTime.
ValidForm ==
    [vehicleMake |-> "Toyota", vehicleModel |-> "Corolla", vehicleYear |-> "2020",
     fault |-> 200, reason |-> 500]

Forms ==
    { ValidForm,
      [ValidForm EXCEPT !.vehicleMake = ""], [ValidForm EXCEPT !.vehicleModel = ""],
      [ValidForm EXCEPT !.vehicleYear = ""], [ValidForm EXCEPT !.fault = 0],
      [ValidForm EXCEPT !.reason = 0], [ValidForm EXCEPT !.fault = 201],
      [ValidForm EXCEPT !.reason = 501], [ValidForm EXCEPT !.vehicleYear = "abc"],
      [ValidForm EXCEPT !.vehicleYear = "1800"], [ValidForm EXCEPT !.vehicleYear = "2999"] }

NaN == -1
CurrentYear == 2026

parseInt(text) ==
    IF text = "2020" THEN 2020
    ELSE IF text = "1800" THEN 1800
    ELSE IF text = "2999" THEN 2999
    ELSE NaN

RequiredFilled(date, time, form) ==
    /\ date # 0 /\ time # NoTime
    /\ form.vehicleMake # "" /\ form.vehicleModel # "" /\ form.vehicleYear # ""
    /\ form.fault # 0 /\ form.reason # 0

\* the toast of the first check that fails, "" when every check passes
validateFormPending(date, time, form) ==
    IF ~RequiredFilled(date, time, form) THEN "Please fill in all required fields"
    ELSE IF form.fault > 200 THEN "Vehicle fault description must be 200 characters or less"
    ELSE IF form.reason > 500 THEN "Appointment reason must be 500 characters or less"
    ELSE ""

validateForm(date, time, form) ==
    LET year == parseInt(form.vehicleYear)
    IN  IF validateFormPending(date, time, form) # ""
        THEN validateFormPending(date, time, form)
        ELSE IF year = NaN \/ year < 1900 \/ year > CurrentYear + 2
        THEN "Please enter a valid vehicle year"
        ELSE ""

\* NOT NULL and CHECK constraints of the appointments table
RowAccepted(row) ==
    /\ row.vehicle_year # NaN
    /\ row.fault_length <= 200
    /\ row.reason_length <= 500

NoBook == [called |-> FALSE, uid |-> "", mode |-> "", date |-> 0, time |-> NoTime,
           form |-> ValidForm, storeCall |-> FALSE]

Submitted(uid, mode, date, time, form, storeCall) ==
    [called |-> TRUE, uid |-> uid, mode |-> mode, date |-> date, time |-> time,
     form |-> form, storeCall |-> storeCall]

\* state `formData` of the booking component: what the form shows
FormData(date, time, form) == [date |-> date, time |-> time, form |-> form]

\* lines 397-406 and 645-654: the form as first shown and as reset
EmptyFormData ==
    FormData(0, NoTime, [vehicleMake |-> "", vehicleModel |-> "", vehicleYear |-> "",
                         fault |-> 0, reason |-> 0])

\* date, time and form are the values handleSubmit read from formData when it
\* was called.  checkedAt is a history field: the number of stored
\* appointments when the availability check was made.  onSuccess is a history
\* field: the latest handleSubmit called onSuccess().
IdleBook ==
    [pc |-> "idle", date |-> 0, time |-> NoTime, form |-> ValidForm,
     isAvailable |-> FALSE,
     finalTime |-> NoTime, adminNotes |-> NoNotes, occupied |-> FALSE,
     resolvable |-> FALSE, checkedAt |-> 0,
     formData |-> EmptyFormData, onSuccess |-> FALSE]

\* the component after handleSubmit has returned
FormLeft(formData, onSuccess) ==
    [IdleBook EXCEPT !.formData = formData, !.onSuccess = onSuccess]

RescheduledNotes(time) ==
    [kind |-> "rescheduled", original |-> time,
     text |-> "Automatically rescheduled due to time conflict."]

\* lines 586-603: the single availability check and the choice of finalTime
CheckedBooking(uid, date, time, form) ==
    LET isAvailable == checkTimeSlotAvailability(uid, date, time)
    IN  [pc |-> "insert", date |-> date, time |-> time, form |-> form,
         checkedAt |-> Len(appointments),
         isAvailable |-> isAvailable,
         finalTime |-> IF isAvailable THEN time ELSE calculateDelayedTime(time),
         adminNotes |-> IF isAvailable THEN NoNotes ELSE RescheduledNotes(time),
         occupied |-> SlotOccupied(date, convertTimeToDBFormat(time)),
         resolvable |-> findAvailableTimeSlot(uid, date, time, 0).ok,
         formData |-> FormData(date, time, form), onSuccess |-> FALSE]

\* the row without the notes of a rescheduled booking
BookedRow_NoNotes(uid, b) ==
    [customer_id |-> uid,
     vehicle_year |-> parseInt(b.form.vehicleYear),
     fault_length |-> b.form.fault,
     reason_length |-> b.form.reason,
     appointment_date |-> b.date,
     appointment_time |-> convertTimeToDBFormat(b.finalTime),
     status |-> "approved",
     technician_id |-> NULL,
     admin_notes |-> NoNotes,
     rejection_reason |-> NULL,
     estimated_duration_hours |-> NullHours,
     mode |-> "auto", req |-> b.time,
     freeSeen |-> IF b.isAvailable THEN {b.time} ELSE {},
     resolvable |-> b.resolvable, checkedAt |-> b.checkedAt]

\* lines 605-620: the row handed to insert
BookedRow(uid, b) ==
    [customer_id |-> uid,
     vehicle_year |-> parseInt(b.form.vehicleYear),
     fault_length |-> b.form.fault,
     reason_length |-> b.form.reason,
     appointment_date |-> b.date,
     appointment_time |-> convertTimeToDBFormat(b.finalTime),
     status |-> "approved",
     technician_id |-> NULL,
     admin_notes |-> b.adminNotes,
     rejection_reason |-> NULL,
     estimated_duration_hours |-> NullHours,
     mode |-> "auto", req |-> b.time,
     freeSeen |-> IF b.isAvailable THEN {b.time} ELSE {},
     resolvable |-> b.resolvable, checkedAt |-> b.checkedAt]

\* state `isSubmitting` of the booking component: true from the start of
\* handleSubmit's try block to its finally block
isSubmitting(c) == book[c].pc # "idle"

\* handleSubmit without the isSubmitting condition of line 581
BookCheck_NoGuard(c, date, time, form) ==
    /\ isSubmitting(c) => FormData(date, time, form) = book[c].formData
    /\ Len(appointments) + Cardinality({o \in Customers \ {c} : book[o].pc # "idle"}) + 1
          <= MaxBooked
    /\ IF validateForm(date, time, form) # ""
       THEN /\ toast' = Shown(c, validateForm(date, time, form))
            /\ lastBook' = Submitted(c, "auto", date, time, form, FALSE)
            /\ book' = [book EXCEPT ![c] = FormLeft(FormData(date, time, form), FALSE)]
            /\ UNCHANGED overlapped
       ELSE /\ \E storeError \in BOOLEAN :
                  IF storeError
                  THEN /\ book' = [book EXCEPT ![c] =
                                      FormLeft(FormData(date, time, form), FALSE)]
                       /\ toast' = Shown(c, "An unexpected error occurred")
                  ELSE /\ book' = [book EXCEPT ![c] = CheckedBooking(c, date, time, form)]
                       /\ toast' = IF checkTimeSlotAvailability(c, date, time)
                                   THEN NoToast ELSE Shown(c, "Time Slot Conflict")
            /\ lastBook' = Submitted(c, "auto", date, time, form, TRUE)
            /\ overlapped' = (overlapped \/ \E o \in Customers \ {c} : book[o].pc # "idle")
    /\ UNCHANGED << dbVars, adminVars, localVars, res, profiles, authVars, request >>

\* handleSubmit up to the return of the availability query.  While
\* isSubmitting the fields of the form are disabled (lines 701-827): a call
\* made then finds in formData what the call in flight read.
BookCheck(c, date, time, form) ==
    /\ IF isSubmitting(c)
       THEN /\ FormData(date, time, form) = book[c].formData
            /\ toast' = NoToast
            /\ lastBook' = Submitted(c, "auto", date, time, form, FALSE)
            /\ UNCHANGED << book, overlapped >>
       ELSE /\ Len(appointments) + Cardinality({o \in Customers : book[o].pc # "idle"})
                  < MaxBooked
            /\ IF validateForm(date, time, form) # ""
               THEN /\ toast' = Shown(c, validateForm(date, time, form))
                    /\ lastBook' = Submitted(c, "auto", date, time, form, FALSE)
                    /\ book' = [book EXCEPT ![c] = FormLeft(FormData(date, time, form), FALSE)]
                    /\ UNCHANGED overlapped
               ELSE /\ \E storeError \in BOOLEAN :
                          IF storeError
                          THEN /\ book' = [book EXCEPT ![c] =
                                              FormLeft(FormData(date, time, form), FALSE)]
                               /\ toast' = Shown(c, "An unexpected error occurred")
                          ELSE /\ book' = [book EXCEPT ![c] = CheckedBooking(c, date, time, form)]
                               /\ toast' = IF checkTimeSlotAvailability(c, date, time)
                                           THEN NoToast ELSE Shown(c, "Time Slot Conflict")
                    /\ lastBook' = Submitted(c, "auto", date, time, form, TRUE)
                    /\ overlapped' = (overlapped \/ \E o \in Customers \ {c} : book[o].pc # "idle")
    /\ UNCHANGED << dbVars, adminVars, localVars, res, profiles, authVars, request >>

\* an insert that looks at the slot again and moves on when it is taken
BookInsert_Retry(c) ==
    /\ book[c].pc = "insert"
    /\ LET b == book[c]
           taken == SlotOccupied(b.date, convertTimeToDBFormat(b.finalTime))
           row == BookedRow(c, IF taken
                               THEN [b EXCEPT !.finalTime = calculateDelayedTime(@)]
                               ELSE b)
       IN  \E storeError \in BOOLEAN :
              IF storeError \/ ~CanInsertAppointment(c, row) \/ ~RowAccepted(row)
              THEN /\ toast' = Shown(c, "Failed to book appointment")
                   /\ book' = [book EXCEPT ![c] = FormLeft(b.formData, FALSE)]
                   /\ UNCHANGED appointments
              ELSE /\ appointments' = Append(appointments, row)
                   /\ toast' = Shown(c, IF b.isAvailable THEN "Appointment Confirmed!"
                                         ELSE "Appointment Rescheduled & Confirmed!")
                   /\ book' = [book EXCEPT ![c] = FormLeft(EmptyFormData, TRUE)]
    /\ UNCHANGED << tasks, overlapped, lastBook, adminVars, localVars, res, profiles, authVars, request >>

\* an insert whose form reset and onSuccess() stand in the finally block
BookInsert_ResetAlways(c) ==
    /\ book[c].pc = "insert"
    /\ \E storeError \in BOOLEAN :
          IF \/ storeError
             \/ ~CanInsertAppointment(c, BookedRow(c, book[c]))
             \/ ~RowAccepted(BookedRow(c, book[c]))
          THEN /\ toast' = Shown(c, "Failed to book appointment")
               /\ UNCHANGED appointments
          ELSE /\ appointments' = Append(appointments, BookedRow(c, book[c]))
               /\ toast' = Shown(c, IF book[c].isAvailable THEN "Appointment Confirmed!"
                                     ELSE "Appointment Rescheduled & Confirmed!")
    /\ book' = [book EXCEPT ![c] = FormLeft(EmptyFormData, TRUE)]
    /\ UNCHANGED << tasks, overlapped, lastBook, adminVars, localVars, res, profiles, authVars, request >>

\* handleSubmit from the insert to its end
BookInsert(c) ==
    /\ book[c].pc = "insert"
    /\ \E storeError \in BOOLEAN :
          IF \/ storeError
             \/ ~CanInsertAppointment(c, BookedRow(c, book[c]))
             \/ ~RowAccepted(BookedRow(c, book[c]))
          THEN /\ toast' = Shown(c, "Failed to book appointment")
               /\ book' = [book EXCEPT ![c] = FormLeft(book[c].formData, FALSE)]
               /\ UNCHANGED appointments
          ELSE /\ appointments' = Append(appointments, BookedRow(c, book[c]))
               /\ toast' = Shown(c, IF book[c].isAvailable THEN "Appointment Confirmed!"
                                     ELSE "Appointment Rescheduled & Confirmed!")
               /\ book' = [book EXCEPT ![c] = FormLeft(EmptyFormData, TRUE)]
    /\ UNCHANGED << tasks, overlapped, lastBook, adminVars, localVars, res, profiles, authVars, request >>

(***************************************************************************)
(* Booking, manual-review variant: one insert, status pending, no check.   *)
(***************************************************************************)
\* a row stored as the auto-approval variant stores it
PendingRow_Approved(uid, date, time, form) ==
    [customer_id |-> uid,
     vehicle_year |-> parseInt(form.vehicleYear),
     fault_length |-> form.fault,
     reason_length |-> form.reason,
     appointment_date |-> date,
     appointment_time |-> TimeColumnInput(time),
     status |-> "approved",
     technician_id |-> NULL,
     admin_notes |-> NoNotes,
     rejection_reason |-> NULL,
     estimated_duration_hours |-> NullHours,
     mode |-> "manual", req |-> time, freeSeen |-> {}, resolvable |-> TRUE,
     checkedAt |-> 0]

\* lines 948-961: the row handed to insert
PendingRow(uid, date, time, form) ==
    [customer_id |-> uid,
     vehicle_year |-> parseInt(form.vehicleYear),
     fault_length |-> form.fault,
     reason_length |-> form.reason,
     appointment_date |-> date,
     appointment_time |-> TimeColumnInput(time),
     status |-> "pending",
     technician_id |-> NULL,
     admin_notes |-> NoNotes,
     rejection_reason |-> NULL,
     estimated_duration_hours |-> NullHours,
     mode |-> "manual", req |-> time, freeSeen |-> {}, resolvable |-> TRUE,
     checkedAt |-> 0]

BookPending(c, date, time, form) ==
    /\ Len(appointments) < MaxAppts
    /\ IF validateFormPending(date, time, form) # ""
       THEN /\ toast' = Shown(c, validateFormPending(date, time, form))
            /\ lastBook' = Submitted(c, "manual", date, time, form, FALSE)
            /\ UNCHANGED appointments
       ELSE /\ \E storeError \in BOOLEAN :
                  IF \/ storeError
                     \/ ~CanInsertAppointment(c, PendingRow(c, date, time, form))
                     \/ ~RowAccepted(PendingRow(c, date, time, form))
                  THEN /\ toast' = Shown(c, "Failed to book appointment")
                       /\ UNCHANGED appointments
                  ELSE /\ appointments' = Append(appointments, PendingRow(c, date, time, form))
                       /\ toast' = Shown(c, "Appointment Booked!")
            /\ lastBook' = Submitted(c, "manual", date, time, form, TRUE)
    /\ UNCHANGED << tasks, book, overlapped, adminVars, localVars, res, profiles, authVars, request >>

(***************************************************************************)
(* Admin appointment management, hosted-store variant.  A handler awaits   *)
(* the appointment write, then the list refresh, then (Assign, Complete)   *)
(* the task write; each await is one step.  One handler is in flight per   *)
(* admin session at a time.                                                *)
(***************************************************************************)
\* writeOk, beforeStatus and beforeTasks are history fields: the outcome of the
\* handler's appointment write and the stored statuses when it began.
IdleOp ==
    [kind |-> "idle", pc |-> "idle", id |-> 0, hadTasks |-> FALSE,
     technician |-> "", tasks |-> "", hours |-> 0,
     writeOk |-> FALSE, beforeStatus |-> "", beforeTasks |-> << >>]

TaskStatuses == [k \in 1..Len(tasks) |-> tasks[k].status]

TasksOf(id) == {k \in 1..Len(tasks) : tasks[k].appointment_id = id}

\* transformAppointment over the result of the fetchAppointments query
FetchedList ==
    [i \in 1..Len(appointments) |->
        [status |-> appointments[i].status,
         technicianId |-> appointments[i].technician_id,
         tasks |-> Cardinality(TasksOf(i))]]

\* fetchAppointments: on a store error the list is kept and `error` is set
AfterFetch(a, storeError) ==
    /\ adminList' = [adminList EXCEPT ![a] =
                        IF storeError THEN adminList[a] ELSE FetchedList]
    /\ adminError' = [adminError EXCEPT ![a] = storeError]

\* the mount effect, Refresh and Try Again
AdminFetch(a) ==
    /\ adminOp[a].kind = "idle"
    /\ \E storeError \in BOOLEAN : AfterFetch(a, storeError)
    /\ toast' = NoToast
    /\ UNCHANGED << dbVars, bookVars, adminOp, localVars, res, profiles, authVars, request >>

\* a row of the rendered list with the given status (the buttons are gated by it)
Listed(a, id, status) ==
    /\ adminOp[a].kind = "idle"
    /\ ~adminError[a]
    /\ id \in DOMAIN adminList[a]
    /\ adminList[a][id].status = status

AdminNotes(text) == [kind |-> "admin", original |-> NoTime, text |-> text]

\* updateData of updateAppointmentStatus: a field is written only when truthy
UpdatedRow(row, status, additionalData) ==
    [row EXCEPT
        !.status = status,
        !.technician_id =
            IF additionalData.technicianId # "" THEN additionalData.technicianId ELSE @,
        !.admin_notes =
            IF additionalData.adminNotes # "" THEN AdminNotes(additionalData.adminNotes) ELSE @,
        !.rejection_reason =
            IF additionalData.rejectionReason # "" THEN additionalData.rejectionReason ELSE @,
        !.estimated_duration_hours =
            IF additionalData.estimatedDuration # 0 THEN additionalData.estimatedDuration ELSE @]

NoData == [technicianId |-> "", adminNotes |-> "", rejectionReason |-> "",
           estimatedDuration |-> 0]

\* the update of updateAppointmentStatus as the store applies it
WriteOk(a, storeError) == ~storeError /\ AdminCanUpdateAppointment(a)

AppointmentWrite(a, id, status, additionalData, storeError) ==
    appointments' =
        IF WriteOk(a, storeError)
        THEN [appointments EXCEPT ![id] = UpdatedRow(@, status, additionalData)]
        ELSE appointments

\* handleApprove / handleReject up to the return of the appointment write.  A
\* failed write is caught inside updateAppointmentStatus: the handler goes on.
StatusClick(a, id, kind, status, additionalData, doneToast) ==
    \E storeError \in BOOLEAN :
        /\ AppointmentWrite(a, id, status, additionalData, storeError)
        /\ IF WriteOk(a, storeError)
           THEN /\ adminOp' = [adminOp EXCEPT ![a] =
                                  [IdleOp EXCEPT !.kind = kind, !.pc = "fetch", !.id = id,
                                                 !.writeOk = TRUE,
                                                 !.beforeStatus = appointments[id].status,
                                                 !.beforeTasks = TaskStatuses]]
                /\ toast' = NoToast
           ELSE /\ adminOp' = [adminOp EXCEPT ![a] = IdleOp]
                /\ toast' = Shown(a, doneToast)
        /\ UNCHANGED << tasks, bookVars, adminList, adminError, localVars, res, profiles, authVars, request >>

handleApprove(a, id) ==
    /\ Listed(a, id, "pending")
    /\ StatusClick(a, id, "approve", "approved", NoData, "Appointment Approved")

RejectReasons == {"", "no capacity"}

\* handleReject that writes whatever the prompt returned
handleReject_AnyReason(a, id, reason) ==
    /\ Listed(a, id, "pending")
    /\ StatusClick(a, id, "reject", "rejected",
                   [NoData EXCEPT !.rejectionReason = reason], "Appointment Rejected")

handleReject(a, id, reason) ==
    /\ Listed(a, id, "pending")
    /\ IF reason # ""
       THEN StatusClick(a, id, "reject", "rejected",
                        [NoData EXCEPT !.rejectionReason = reason], "Appointment Rejected")
       ELSE UNCHANGED vars

\* parseFloat of the duration field
parseFloat(duration) == IF duration = "2" THEN 2 ELSE 0
Durations == {"", "2"}
AssignDurations == {"", "0", "2"}

\* handleAssignTechnician that goes on without a technician
handleAssignTechnician_Unchecked(a, id, technician, taskText, duration, notes) ==
    /\ Listed(a, id, "pending")
    /\ Len(tasks) + Cardinality({o \in Admins : adminOp[o].kind = "assign"}) < MaxTasks
    /\ \E storeError \in BOOLEAN :
        /\ AppointmentWrite(a, id, "approved",
                [technicianId |-> technician, adminNotes |-> notes,
                 rejectionReason |-> "", estimatedDuration |-> parseFloat(duration)],
                storeError)
        /\ adminOp' = [adminOp EXCEPT ![a] =
                [IdleOp EXCEPT !.kind = "assign",
                               !.pc = IF WriteOk(a, storeError) THEN "fetch" ELSE "task",
                               !.id = id, !.technician = technician,
                               !.tasks = taskText, !.hours = parseFloat(duration),
                               !.writeOk = WriteOk(a, storeError),
                               !.beforeStatus = appointments[id].status,
                               !.beforeTasks = TaskStatuses]]
        /\ toast' = IF WriteOk(a, storeError) THEN NoToast
                    ELSE Shown(a, "Failed to update appointment")
        /\ UNCHANGED << tasks, bookVars, adminList, adminError, localVars, res, profiles, authVars, request >>

\* handleAssignTechnician up to the return of the appointment write.  id is the
\* row whose dialog is open, 0 when selectedAppointment is null.
handleAssignTechnician(a, id, technician, taskText, duration, notes) ==
    /\ (id = 0 /\ adminOp[a].kind = "idle" /\ ~adminError[a]) \/ Listed(a, id, "pending")
    /\ Len(tasks) + Cardinality({o \in Admins : adminOp[o].kind = "assign"}) < MaxTasks
    /\ IF id = 0 \/ technician = "" \/ taskText = "" \/ duration = ""
       THEN /\ toast' = Shown(a, "Please fill in all assignment fields")
            /\ UNCHANGED << dbVars, bookVars, adminVars, localVars, res, profiles, authVars, request >>
       ELSE \E storeError \in BOOLEAN :
            /\ AppointmentWrite(a, id, "approved",
                    [technicianId |-> technician, adminNotes |-> notes,
                     rejectionReason |-> "", estimatedDuration |-> parseFloat(duration)],
                    storeError)
            /\ adminOp' = [adminOp EXCEPT ![a] =
                    [IdleOp EXCEPT !.kind = "assign",
                                   !.pc = IF WriteOk(a, storeError) THEN "fetch" ELSE "task",
                                   !.id = id, !.technician = technician,
                                   !.tasks = taskText, !.hours = parseFloat(duration),
                                   !.writeOk = WriteOk(a, storeError),
                                   !.beforeStatus = appointments[id].status,
                                   !.beforeTasks = TaskStatuses]]
            /\ toast' = IF WriteOk(a, storeError) THEN NoToast
                        ELSE Shown(a, "Failed to update appointment")
            /\ UNCHANGED << tasks, bookVars, adminList, adminError, localVars, res, profiles, authVars, request >>

\* handleComplete up to the return of the appointment write; appointment.tasks
\* is the task list of the rendered row the button belongs to
handleComplete(a, id) ==
    /\ Listed(a, id, "approved")
    /\ \E storeError \in BOOLEAN :
        /\ AppointmentWrite(a, id, "completed", NoData, storeError)
        /\ LET hadTasks == adminList[a][id].tasks > 0
               next == IF WriteOk(a, storeError) THEN "fetch"
                       ELSE IF hadTasks THEN "task" ELSE "idle"
           IN  /\ adminOp' = [adminOp EXCEPT ![a] =
                      IF next = "idle" THEN IdleOp
                      ELSE [IdleOp EXCEPT !.kind = "complete", !.pc = next, !.id = id,
                                          !.hadTasks = hadTasks,
                                          !.writeOk = WriteOk(a, storeError),
                                          !.beforeStatus = appointments[id].status,
                                          !.beforeTasks = TaskStatuses]]
               /\ toast' = IF next = "idle" THEN Shown(a, "Service Completed")
                           ELSE IF next = "task" THEN Shown(a, "Failed to update appointment")
                           ELSE NoToast
    /\ UNCHANGED << tasks, bookVars, adminList, adminError, localVars, res, profiles, authVars, request >>

\* the `await fetchAppointments()` of updateAppointmentStatus and what follows it
\* up to the next await
AdminRefetch(a) ==
    /\ adminOp[a].pc = "fetch"
    /\ \E storeError \in BOOLEAN : AfterFetch(a, storeError)
    /\ LET op == adminOp[a]
           more == op.kind = "assign" \/ (op.kind = "complete" /\ op.hadTasks)
       IN  /\ adminOp' = [adminOp EXCEPT ![a] =
                             IF more THEN [op EXCEPT !.pc = "task"] ELSE IdleOp]
           /\ toast' = IF more THEN NoToast
                       ELSE IF op.kind = "approve" THEN Shown(a, "Appointment Approved")
                       ELSE IF op.kind = "reject" THEN Shown(a, "Appointment Rejected")
                       ELSE Shown(a, "Service Completed")
    /\ UNCHANGED << dbVars, bookVars, localVars, res, profiles, authVars, request >>

\* the task row without the technician
NewTask_NoTechnician(op) ==
    [appointment_id |-> op.id, technician_id |-> NULL,
     task_description |-> op.tasks, estimated_duration_hours |-> op.hours,
     status |-> "assigned"]

NewTask(op) ==
    [appointment_id |-> op.id, technician_id |-> op.technician,
     task_description |-> op.tasks, estimated_duration_hours |-> op.hours,
     status |-> "assigned"]

\* the task insert of handleAssignTechnician and the end of the handler
AssignTaskInsert(a) ==
    /\ adminOp[a].kind = "assign" /\ adminOp[a].pc = "task"
    /\ \E storeError \in BOOLEAN :
          IF storeError \/ get_user_role(a) # "admin"
          THEN /\ toast' = Shown(a, "Failed to assign technician")
               /\ UNCHANGED tasks
          ELSE /\ tasks' = Append(tasks, NewTask(adminOp[a]))
               /\ toast' = Shown(a, "Technician Assigned")
    /\ adminOp' = [adminOp EXCEPT ![a] = IdleOp]
    /\ UNCHANGED << appointments, bookVars, adminList, adminError, localVars, res, profiles, authVars, request >>

\* the task update of handleComplete and the end of the handler
CompleteTaskUpdate(a) ==
    /\ adminOp[a].kind = "complete" /\ adminOp[a].pc = "task"
    /\ \E storeError \in BOOLEAN :
          IF storeError \/ get_user_role(a) # "admin"
          THEN /\ toast' = Shown(a, "Failed to complete appointment")
               /\ UNCHANGED tasks
          ELSE /\ tasks' = [k \in 1..Len(tasks) |->
                      IF tasks[k].appointment_id = adminOp[a].id
                      THEN [tasks[k] EXCEPT !.status = "completed"] ELSE tasks[k]]
               /\ toast' = Shown(a, "Service Completed")
    /\ adminOp' = [adminOp EXCEPT ![a] = IdleOp]
    /\ UNCHANGED << appointments, bookVars, adminList, adminError, localVars, res, profiles, authVars, request >>

(***************************************************************************)
(* Local-storage variant: AppointmentManagement (admin) and                *)
(* TechnicianDashboard keep their own copy of the list, loaded by the      *)
(* mount effect, and write localStorage 'appointments' on every update.    *)
(* Every handler is synchronous: one step.  The order of the lists is not  *)
(* modelled (no handler reads it).                                         *)
(***************************************************************************)
LocalTechnicianNames == {"Mike Johnson"}

\* profile.full_name of a technician session
FullName(t) == profiles[t].full_name

LocalEntry(i) ==
    [id |-> i, status |-> "pending", assignedTechnician |-> "", tasks |-> "",
     rejectionReason |-> "", startedAt |-> FALSE, completedAt |-> FALSE]

\* the load effect of the admin component (mount, page reload)
LocalAdminLoad ==
    /\ localAdmin' = localStore
    /\ toast' = NoToast
    /\ UNCHANGED << dbVars, bookVars, adminVars, localStore, techList, res, profiles, authVars, request >>

\* updateAppointmentStatus of the local-storage admin component: the admin's
\* own list, with one entry changed, replaces the stored list
LocalUpdate(list, id, status, data) ==
    [k \in 1..Len(list) |->
        IF list[k].id = id
        THEN [list[k] EXCEPT !.status = status,
                             !.assignedTechnician = IF data.assignedTechnician # "" THEN data.assignedTechnician ELSE @,
                             !.tasks = IF data.tasks # "" THEN data.tasks ELSE @,
                             !.rejectionReason = IF data.rejectionReason # "" THEN data.rejectionReason ELSE @,
                             !.startedAt = @ \/ data.startedAt,
                             !.completedAt = @ \/ data.completedAt]
        ELSE list[k]]

NoLocalData == [assignedTechnician |-> "", tasks |-> "", rejectionReason |-> "",
                startedAt |-> FALSE, completedAt |-> FALSE]

LocalAdminUpdate(id, status, data, title) ==
    /\ localAdmin' = LocalUpdate(localAdmin, id, status, data)
    /\ localStore' = LocalUpdate(localAdmin, id, status, data)
    /\ toast' = Shown("a1", title)
    /\ UNCHANGED << dbVars, bookVars, adminVars, techList, res, profiles, authVars, request >>

LocalListed(k, status) ==
    /\ k \in 1..Len(localAdmin)
    /\ localAdmin[k].status = status

LocalApprove(k) ==
    /\ LocalListed(k, "pending")
    /\ LocalAdminUpdate(localAdmin[k].id, "approved", NoLocalData, "Appointment Approved")

LocalReject(k, reason) ==
    /\ LocalListed(k, "pending")
    /\ IF reason # ""
       THEN LocalAdminUpdate(localAdmin[k].id, "rejected",
                [NoLocalData EXCEPT !.rejectionReason = reason], "Appointment Rejected")
       ELSE UNCHANGED vars

\* k is the listed row whose dialog is open, 0 when selectedAppointment is null
LocalAssign(k, technician, taskText, duration) ==
    /\ k = 0 \/ LocalListed(k, "pending")
    /\ IF k = 0 \/ technician = "" \/ taskText = "" \/ duration = ""
       THEN /\ toast' = Shown("a1", "Please fill in all assignment fields")
            /\ UNCHANGED << dbVars, bookVars, adminVars, localVars, res, profiles, authVars, request >>
       ELSE LocalAdminUpdate(localAdmin[k].id, "approved",
                [NoLocalData EXCEPT !.assignedTechnician = technician, !.tasks = taskText],
                "Technician Assigned")

LocalComplete(k) ==
    /\ LocalListed(k, "approved")
    /\ ~localAdmin[k].completedAt
    /\ LocalAdminUpdate(localAdmin[k].id, "completed",
            [NoLocalData EXCEPT !.completedAt = TRUE], "Service Completed")

\* the load effect of the technician dashboard
TechLoad(t) ==
    /\ techList' = [techList EXCEPT ![t] =
          SelectSeq(localStore, LAMBDA apt : apt.assignedTechnician = FullName(t))]
    /\ toast' = NoToast
    /\ UNCHANGED << dbVars, bookVars, adminVars, localStore, localAdmin, res, profiles, authVars, request >>

\* updateAssignmentStatus: the technician's list and the stored list are both
\* mapped; the stored list is re-read before it is written
updateAssignmentStatus(t, id, status, data, title) ==
    /\ techList' = [techList EXCEPT ![t] = LocalUpdate(techList[t], id, status, data)]
    /\ localStore' = LocalUpdate(localStore, id, status, data)
    /\ toast' = Shown(t, title)
    /\ UNCHANGED << dbVars, bookVars, adminVars, localAdmin, res, profiles, authVars, request >>

handleStartJob(t, k) ==
    /\ k \in 1..Len(techList[t])
    /\ techList[t][k].status = "approved"
    /\ updateAssignmentStatus(t, techList[t][k].id, "in-progress",
            [NoLocalData EXCEPT !.startedAt = TRUE], "Job Started")

handleCompleteJob(t, k) ==
    /\ k \in 1..Len(techList[t])
    /\ techList[t][k].status = "in-progress"
    /\ updateAssignmentStatus(t, techList[t][k].id, "completed",
            [NoLocalData EXCEPT !.completedAt = TRUE], "Job Completed")

(***************************************************************************)
(* Row-level policies of the profiles table.  caller is auth.uid(), NULL   *)
(* for a request without a session.                                        *)
(***************************************************************************)
\* "Users can view their own profile and admins can view all"
CanSelectProfile(caller, owner) ==
    caller = owner \/ get_user_role(caller) = "admin"

\* "Users can insert their own profile"
CanInsertProfile(caller, owner) == caller = owner

\* "Users can update their own profile", "Admins can update any profile"
CanUpdateProfile(caller, owner) ==
    caller = owner \/ get_user_role(caller) = "admin"

(***************************************************************************)
(* Requests made of the store directly, with the session of `caller`: the  *)
(* store applies the row-level policies and the table constraints, and     *)
(* nothing else.  A row an UPDATE policy's USING hides from the caller is  *)
(* not updated and no error is reported; a new row that satisfies no       *)
(* policy's check (the USING expression, where no WITH CHECK is given) or  *)
(* breaks a constraint is an error.                                        *)
(***************************************************************************)
NoRequest == [caller |-> NULL, table |-> "", op |-> "", row |-> 0, owner |-> NULL,
              change |-> [field |-> "", value |-> ""], outcome |-> ""]

Requested(caller, table, op, row, owner, change, outcome) ==
    [caller |-> caller, table |-> table, op |-> op, row |-> row, owner |-> owner,
     change |-> change, outcome |-> outcome]

Change(field, value) == [field |-> field, value |-> value]

Changed(row, change) == [row EXCEPT ![change.field] = change.value]

\* the outcome of an UPDATE of one row
UpdateOutcome(storeError, using, check) ==
    IF storeError THEN "error"
    ELSE IF ~using THEN "no rows"
    ELSE IF ~check THEN "rejected"
    ELSE "updated"

ProfileChanges ==
    { Change("full_name", "Mike J."), Change("phone", "555"),
      Change("role", "admin"), Change("role", "customer"),
      Change("is_approved", TRUE), Change("is_approved", FALSE) }

\* update of the profile of `owner`
UpdateProfileRequest(caller, owner, change) ==
    /\ profiles[caller].exists /\ profiles[owner].exists
    /\ \E storeError \in BOOLEAN :
          LET outcome == UpdateOutcome(storeError, CanUpdateProfile(caller, owner),
                                       CanUpdateProfile(caller, owner))
          IN  /\ profiles' = IF outcome = "updated"
                             THEN [profiles EXCEPT ![owner] = Changed(@, change)]
                             ELSE profiles
              /\ request' = Requested(caller, "profiles", "update", 0, owner, change, outcome)
    /\ UNCHANGED << appVars, toast, authVars >>

\* "Customers can update their own pending appointments"
CustomerCanUpdateAppointment(caller, row) ==
    /\ row.customer_id = caller
    /\ row.status = "pending"
    /\ get_user_role(caller) = "customer"

\* "Technicians can update status of their assigned appointments"
TechnicianCanUpdateAppointment(caller, row) ==
    /\ row.technician_id = caller
    /\ get_user_role(caller) = "technician"
    /\ is_user_approved(caller)

\* the UPDATE policies of the appointments table together
CanUpdateAppointment(caller, row) ==
    \/ CustomerCanUpdateAppointment(caller, row)
    \/ AdminCanUpdateAppointment(caller)
    \/ TechnicianCanUpdateAppointment(caller, row)

\* column types and references of the appointments table
AppointmentRowValid(row) ==
    /\ row.status \in appointment_status
    /\ row.customer_id \in Accounts /\ profiles[row.customer_id].exists
    /\ row.technician_id = NULL
          \/ (row.technician_id \in Accounts /\ profiles[row.technician_id].exists)
    /\ RowAccepted(row)

AppointmentChanges ==
    { Change("status", "pending"), Change("status", "approved"),
      Change("status", "in_progress"), Change("status", "completed"),
      Change("vehicle_year", 2021), Change("appointment_date", 2),
      Change("technician_id", "t2"), Change("customer_id", "c2") }

\* update of appointment id
UpdateAppointmentRequest(caller, id, change) ==
    /\ profiles[caller].exists /\ id \in 1..Len(appointments)
    /\ \E storeError \in BOOLEAN :
          LET new == Changed(appointments[id], change)
              outcome == UpdateOutcome(storeError,
                             CanUpdateAppointment(caller, appointments[id]),
                             CanUpdateAppointment(caller, new) /\ AppointmentRowValid(new))
          IN  /\ appointments' = IF outcome = "updated"
                                 THEN [appointments EXCEPT ![id] = new]
                                 ELSE appointments
              /\ request' = Requested(caller, "appointments", "update", id, NULL, change, outcome)
    /\ UNCHANGED << tasks, bookVars, adminVars, localVars, res, toast, profiles, authVars >>

\* insert of an appointment for customer_id
InsertAppointmentRequest(caller, customer_id) ==
    /\ profiles[caller].exists
    /\ Len(appointments) < MaxAppts
    /\ \E storeError \in BOOLEAN :
          LET row == PendingRow(customer_id, 1, timeSlots[1], ValidForm)
              outcome == IF storeError THEN "error"
                         ELSE IF CanInsertAppointment(caller, row) /\ AppointmentRowValid(row)
                         THEN "inserted" ELSE "rejected"
          IN  /\ appointments' = IF outcome = "inserted"
                                 THEN Append(appointments, row) ELSE appointments
              /\ request' = Requested(caller, "appointments", "insert", 0, customer_id,
                                      Change("", ""), outcome)
    /\ UNCHANGED << tasks, bookVars, adminVars, localVars, res, toast, profiles, authVars >>

\* "Admins can create and update tasks"
AdminCanWriteTask(caller) == get_user_role(caller) = "admin"

\* "Technicians can update their own task status"
TechnicianCanUpdateTask(caller, task) ==
    /\ task.technician_id = caller
    /\ get_user_role(caller) = "technician"
    /\ is_user_approved(caller)

CanUpdateTask(caller, task) ==
    AdminCanWriteTask(caller) \/ TechnicianCanUpdateTask(caller, task)

task_status == {"assigned", "in_progress", "completed"}

\* update of the status of task k
UpdateTaskRequest(caller, k, status) ==
    /\ profiles[caller].exists /\ k \in 1..Len(tasks)
    /\ \E storeError \in BOOLEAN :
          LET new == [tasks[k] EXCEPT !.status = status]
              outcome == UpdateOutcome(storeError, CanUpdateTask(caller, tasks[k]),
                                       CanUpdateTask(caller, new) /\ status \in task_status)
          IN  /\ tasks' = IF outcome = "updated" THEN [tasks EXCEPT ![k] = new] ELSE tasks
              /\ request' = Requested(caller, "tasks", "update", k, NULL,
                                      Change("status", status), outcome)
    /\ UNCHANGED << appointments, bookVars, adminVars, localVars, res, toast,
                    profiles, authVars >>

(***************************************************************************)
(* The AuthProvider of one browser (Supabase variant).  The Supabase       *)
(* client keeps the session (sbSession) across page loads; the provider    *)
(* keeps session, user and profile as component state.  An await is the    *)
(* end of a step.                                                          *)
(***************************************************************************)
NoSnapshot == [user_id |-> NULL, role |-> NULL, is_approved |-> FALSE]

Snapshot(u) ==
    [user_id |-> u, role |-> profiles[u].role, is_approved |-> profiles[u].is_approved]

NoAuth == [session |-> NULL, user |-> NULL, profile |-> NoSnapshot]

NoResult == [of |-> "", uid |-> NULL, role |-> NULL, success |-> FALSE, error |-> ""]

Result(of, uid, role, success, error) ==
    [of |-> of, uid |-> uid, role |-> role, success |-> success, error |-> error]

\* result is a history field: what the latest login or register call returned
IdleAuthOp == [kind |-> "idle", pc |-> "idle", uid |-> NULL, role |-> NULL,
               result |-> NoResult]

Ended(result) == [IdleAuthOp EXCEPT !.result = result]

\* fetchProfile as the store answers it to `caller`: the row, or null on an
\* error (.single() reports a missing or hidden row as an error)
fetchProfile(caller, userId, storeError) ==
    IF storeError \/ ~profiles[userId].exists \/ ~CanSelectProfile(caller, userId)
    THEN NoSnapshot
    ELSE Snapshot(userId)

Fetch(u) == [uid |-> u, answered |-> FALSE, data |-> NoSnapshot]

\* the onAuthStateChange callback for a session of u: session and user are set,
\* the profile fetch is deferred
SignedIn(u) ==
    /\ auth' = [auth EXCEPT !.session = u, !.user = u]
    /\ fetches' = fetches \cup {Fetch(u)}

\* the onAuthStateChange callback for no session
SignedOut ==
    /\ auth' = NoAuth
    /\ UNCHANGED fetches

\* the mount effect of the provider (page load): getSession and the profile
\* fetch it starts; fetches of the page before are gone with it
SessionRestore ==
    /\ authOp.kind = "idle"
    /\ auth' = [session |-> sbSession, user |-> sbSession, profile |-> NoSnapshot]
    /\ fetches' = IF sbSession = NULL THEN {} ELSE {Fetch(sbSession)}
    /\ UNCHANGED << appVars, request, toast, profiles, sbSession, authOp, techAdmin >>

\* the store answers a profile fetch
ProfileQuery(f) ==
    /\ f \in fetches /\ ~f.answered
    /\ \E storeError \in BOOLEAN :
          fetches' = (fetches \ {f}) \cup
                        {[f EXCEPT !.answered = TRUE,
                                   !.data = fetchProfile(sbSession, f.uid, storeError)]}
    /\ UNCHANGED << appVars, request, toast, profiles, sbSession, auth, authOp, techAdmin >>

\* the continuation of a profile fetch: setProfile, and setUser(prev => ...)
\* which keeps a null user null
ProfileApply(f) ==
    /\ f \in fetches /\ f.answered
    /\ auth' = [auth EXCEPT !.profile = f.data]
    /\ fetches' = fetches \ {f}
    /\ UNCHANGED << appVars, request, toast, profiles, sbSession, authOp, techAdmin >>

\* login up to the return of signInWithPassword
LoginSignIn(u) ==
    /\ authOp.kind = "idle" /\ sbSession = NULL
    /\ Cardinality(fetches) < MaxFetch
    /\ \E accepted \in BOOLEAN :
          IF ~accepted \/ ~profiles[u].exists
          THEN /\ authOp' = Ended(Result("login", u, NULL, FALSE, "error.message"))
               /\ UNCHANGED << sbSession, auth, fetches >>
          ELSE /\ sbSession' = u
               /\ SignedIn(u)
               /\ authOp' = [IdleAuthOp EXCEPT !.kind = "login", !.pc = "profile",
                                               !.uid = u, !.result = authOp.result]
    /\ UNCHANGED << appVars, request, toast, profiles, techAdmin >>

\* login from the return of signInWithPassword to the return of fetchProfile
LoginProfileCheck ==
    /\ authOp.kind = "login" /\ authOp.pc = "profile"
    /\ \E storeError \in BOOLEAN :
          LET userProfile == fetchProfile(sbSession, authOp.uid, storeError)
          IN  IF /\ userProfile # NoSnapshot
                 /\ userProfile.role = "technician" /\ ~userProfile.is_approved
              THEN authOp' = [authOp EXCEPT !.pc = "signOut"]
              ELSE authOp' = Ended(Result("login", authOp.uid, userProfile.role, TRUE, ""))
    /\ UNCHANGED << appVars, request, toast, profiles, sbSession, auth, fetches, techAdmin >>

\* login of an unapproved technician from the return of fetchProfile to its end
LoginSignOut ==
    /\ authOp.kind = "login" /\ authOp.pc = "signOut"
    /\ sbSession' = NULL
    /\ SignedOut
    /\ authOp' = Ended(Result("login", authOp.uid, "technician", FALSE,
                               "Your technician account is pending admin approval."))
    /\ UNCHANGED << appVars, request, toast, profiles, techAdmin >>

logout ==
    /\ authOp.kind = "idle" /\ sbSession # NULL
    /\ sbSession' = NULL
    /\ SignedOut
    /\ UNCHANGED << appVars, request, toast, profiles, authOp, techAdmin >>

\* handle_new_user: the row the trigger on auth.users inserts; the columns it
\* does not name take their defaults
TriggerProfile(full_name, role) ==
    Profile(IF role = NULL THEN "customer" ELSE role, TRUE, full_name, "")

\* register up to the return of signUp.  Whether signUp opens a session
\* depends on the project's e-mail confirmation setting.
RegisterSignUp(u, name, role) ==
    /\ authOp.kind = "idle" /\ sbSession = NULL
    /\ Cardinality(fetches) < MaxFetch
    /\ \E storeError \in BOOLEAN, confirmed \in BOOLEAN :
          IF storeError \/ profiles[u].exists
          THEN /\ authOp' = Ended(Result("register", u, role, FALSE, "error.message"))
               /\ UNCHANGED << profiles, sbSession, auth, fetches >>
          ELSE /\ profiles' = [profiles EXCEPT ![u] = TriggerProfile(name, role)]
               /\ IF confirmed
                  THEN sbSession' = u /\ SignedIn(u)
                  ELSE UNCHANGED << sbSession, auth, fetches >>
               /\ authOp' = [IdleAuthOp EXCEPT !.kind = "register", !.pc = "insert",
                                               !.uid = u, !.role = role,
                                               !.result = authOp.result]
    /\ UNCHANGED << appVars, request, toast, techAdmin >>

\* register from the return of signUp to its end: the profile insert, whose
\* error is logged and otherwise ignored
RegisterInsert ==
    /\ authOp.kind = "register" /\ authOp.pc = "insert"
    /\ LET u == authOp.uid
           row == Profile(authOp.role, authOp.role = "customer",
                          profiles[u].full_name, "555")
       IN  \E storeError \in BOOLEAN :
              profiles' =
                 IF storeError \/ ~CanInsertProfile(sbSession, u) \/ profiles[u].exists
                 THEN profiles
                 ELSE [profiles EXCEPT ![u] = row]
    /\ authOp' = Ended(Result("register", authOp.uid, authOp.role, TRUE,
                    IF authOp.role = "technician"
                    THEN "Registration successful! Your technician account is pending admin approval."
                    ELSE ""))
    /\ UNCHANGED << appVars, request, toast, sbSession, auth, fetches, techAdmin >>

(***************************************************************************)
(* TechnicianManagement (admin): the list of technician profiles and the   *)
(* Approve and Reject buttons of its unapproved rows.                      *)
(***************************************************************************)
NoTechnicians == [u \in Accounts |-> [listed |-> FALSE, is_approved |-> FALSE]]

fetchTechnicians(a) ==
    /\ \E storeError \in BOOLEAN :
          IF storeError
          THEN /\ toast' = Shown(a, "Error")
               /\ UNCHANGED techAdmin
          ELSE /\ techAdmin' =
                    [u \in Accounts |->
                        IF /\ profiles[u].exists /\ profiles[u].role = "technician"
                           /\ CanSelectProfile(a, u)
                        THEN [listed |-> TRUE, is_approved |-> profiles[u].is_approved]
                        ELSE [listed |-> FALSE, is_approved |-> FALSE]]
               /\ toast' = NoToast
    /\ UNCHANGED << appVars, request, profiles, sbSession, auth, authOp, fetches >>

\* the update of handleApproveTechnician / handleRejectTechnician
SetApproval(a, u, is_approved, title) ==
    /\ \E storeError \in BOOLEAN :
          IF storeError
          THEN /\ toast' = Shown(a, "Error")
               /\ UNCHANGED << profiles, techAdmin >>
          ELSE /\ profiles' =
                    IF CanUpdateProfile(a, u)
                    THEN [profiles EXCEPT ![u].is_approved = is_approved]
                    ELSE profiles
               /\ techAdmin' = [techAdmin EXCEPT ![u].is_approved = is_approved]
               /\ toast' = Shown(a, title)
    /\ UNCHANGED << appVars, request, sbSession, auth, authOp, fetches >>

\* the buttons are rendered for a listed technician that is not approved
handleApproveTechnician(a, u) ==
    /\ techAdmin[u].listed /\ ~techAdmin[u].is_approved
    /\ SetApproval(a, u, TRUE, "Technician Approved")

handleRejectTechnician(a, u) ==
    /\ techAdmin[u].listed /\ ~techAdmin[u].is_approved
    /\ SetApproval(a, u, FALSE, "Technician Rejected")

(***************************************************************************)
(* A call of findAvailableTimeSlot against the store.                      *)
(***************************************************************************)
\* occupied is a history field: whether the requested slot was held by a
\* pending or approved appointment when the call was made.
NoCall == [called |-> FALSE, uid |-> "", date |-> 0, time |-> NoTime,
           occupied |-> FALSE, failAt |-> 0,
           result |-> Thrown("", << >>)]

FailPoints == 0..MaxFail

ResolveCall(uid, date, time, failAt) ==
    /\ res' = [called |-> TRUE, uid |-> uid, date |-> date, time |-> time,
               occupied |-> SlotOccupied(date, convertTimeToDBFormat(time)),
               failAt |-> failAt,
               result |-> findAvailableTimeSlot(uid, date, time, failAt)]
    /\ toast' = NoToast
    /\ UNCHANGED << dbVars, bookVars, adminVars, localVars, profiles, authVars, request >>

(***************************************************************************)
(* Specifications.                                                         *)
(***************************************************************************)
Init ==
    /\ appointments = << >>
    /\ tasks = << >>
    /\ book = [c \in Customers |-> IdleBook]
    /\ overlapped = FALSE
    /\ lastBook = NoBook
    /\ adminList = [a \in Admins |-> << >>]
    /\ adminError = [a \in Admins |-> FALSE]
    /\ adminOp = [a \in Admins |-> IdleOp]
    /\ localStore = [i \in 1..MaxLocal |-> LocalEntry(i)]
    /\ localAdmin = << >>
    /\ techList = [t \in TechnicianSessions |-> << >>]
    /\ res = NoCall
    /\ toast = NoToast
    /\ profiles = [u \in Accounts |-> SeedProfile(u)]
    /\ sbSession = NULL
    /\ auth = NoAuth
    /\ authOp = IdleAuthOp
    /\ fetches = {}
    /\ techAdmin = NoTechnicians
    /\ request = NoRequest

\* Hosted store: manual-review booking and the lifecycle driven by one admin.
Next ==
    \/ BookPending("c1", 1, timeSlots[2], ValidForm)
    \/ AdminFetch("a1")
    \/ \E id \in 1..MaxAppts : handleApprove("a1", id)
    \/ \E id \in 1..MaxAppts, r \in RejectReasons : handleReject("a1", id, r)
    \/ \E id \in 1..MaxAppts, t \in Technicians \cup {""},
          x \in {"", "brakes"}, h \in Durations, n \in {"", "urgent"} :
            handleAssignTechnician("a1", id, t, x, h, n)
    \/ \E id \in 1..MaxAppts : handleComplete("a1", id)
    \/ AdminRefetch("a1")
    \/ AssignTaskInsert("a1")
    \/ CompleteTaskUpdate("a1")

Spec == Init /\ [][Next]_vars

\* Hosted store: auto-approval bookings over the last MaxSlots entries of the
\* slot list.
SlotChoices == {timeSlots[i] : i \in (Len(timeSlots) - MaxSlots + 1)..Len(timeSlots)}

NextBook ==
    \/ \E c \in Customers, t \in SlotChoices : BookCheck(c, 1, t, ValidForm)
    \/ \E c \in Customers : BookInsert(c)

SpecBook == Init /\ [][NextBook]_vars

\* Hosted store: two admin sessions acting on lists loaded at different times.
NextAdmins ==
    \/ Len(appointments) < MaxShared /\ BookPending("c1", 1, timeSlots[2], ValidForm)
    \/ \E a \in Admins : AdminFetch(a)
    \/ \E a \in Admins, id \in 1..MaxShared : handleApprove(a, id)
    \/ \E a \in Admins, id \in 1..MaxShared : handleReject(a, id, "no capacity")
    \/ \E a \in Admins, id \in 1..MaxShared :
            handleAssignTechnician(a, id, "t1", "brakes", "2", "")
    \/ \E a \in Admins, id \in 1..MaxShared : handleComplete(a, id)
    \/ \E a \in Admins : AdminRefetch(a)
    \/ \E a \in Admins : AssignTaskInsert(a)
    \/ \E a \in Admins : CompleteTaskUpdate(a)

SpecAdmins == Init /\ [][NextAdmins]_vars

\* The resolver against a drawn store.  The table accepts any time of day, so
\* the store is drawn over every half hour from 8:00 to 17:30: a run of up to
\* MaxRun consecutive half hours held by approved appointments of c1, one of
\* which may instead be rejected or belong to c2.
HalfHours == 0..19

StoredTime(p) == [hh |-> 8 + (p \div 2), mm |-> 30 * (p % 2), ss |-> 0]

StoredRow(owner, p, status) ==
    [customer_id |-> owner,
     vehicle_year |-> parseInt(ValidForm.vehicleYear),
     fault_length |-> ValidForm.fault,
     reason_length |-> ValidForm.reason,
     appointment_date |-> 1,
     appointment_time |-> StoredTime(p),
     status |-> status,
     technician_id |-> NULL,
     admin_notes |-> NoNotes,
     rejection_reason |-> NULL,
     estimated_duration_hours |-> NullHours,
     mode |-> "stored", req |-> NoTime, freeSeen |-> {}, resolvable |-> TRUE,
     checkedAt |-> 0]

RunStore(start, n, hole, kind) ==
    [k \in 1..n |->
        IF k # hole THEN StoredRow("c1", start + k - 1, "approved")
        ELSE IF kind = "rejected" THEN StoredRow("c1", start + k - 1, "rejected")
        ELSE StoredRow("c2", start + k - 1, "approved")]

DrawnStores ==
    {RunStore(start, n, hole, kind) :
        start \in HalfHours, n \in 0..MaxRun, hole \in 0..MaxRun,
        kind \in {"rejected", "other"}}

InitResolver ==
    /\ appointments \in {st \in DrawnStores :
            \A k \in 1..Len(st) : st[k].appointment_time.hh <= 17}
    /\ tasks = << >>
    /\ book = [c \in Customers |-> IdleBook]
    /\ overlapped = FALSE
    /\ lastBook = NoBook
    /\ adminList = [a \in Admins |-> << >>]
    /\ adminError = [a \in Admins |-> FALSE]
    /\ adminOp = [a \in Admins |-> IdleOp]
    /\ localStore = [i \in 1..MaxLocal |-> LocalEntry(i)]
    /\ localAdmin = << >>
    /\ techList = [t \in TechnicianSessions |-> << >>]
    /\ res = NoCall
    /\ toast = NoToast
    /\ profiles = [u \in Accounts |-> SeedProfile(u)]
    /\ sbSession = NULL
    /\ auth = NoAuth
    /\ authOp = IdleAuthOp
    /\ fetches = {}
    /\ techAdmin = NoTechnicians
    /\ request = NoRequest

\* one call per drawn store: a call changes nothing a later call reads
NextResolver ==
    /\ ~res.called
    /\ \E c \in Customers, t \in SlotSet, f \in FailPoints : ResolveCall(c, 1, t, f)

SpecResolver == InitResolver /\ [][NextResolver]_vars

\* Both booking forms over every drawn input.
NextForms ==
    \/ \E d \in {0, 1}, t \in {NoTime, timeSlots[2]}, f \in Forms : BookCheck("c1", d, t, f)
    \/ BookInsert("c1")
    \/ \E d \in {0, 1}, t \in {NoTime, timeSlots[2]}, f \in Forms : BookPending("c1", d, t, f)

SpecForms == Init /\ [][NextForms]_vars

\* Hosted store: Assign over every drawn input of the dialog.
NextAssign ==
    \/ BookPending("c1", 1, timeSlots[2], ValidForm)
    \/ AdminFetch("a1")
    \/ \E id \in 0..MaxAppts, t \in Technicians \cup {""},
          x \in {"", "brakes"}, h \in AssignDurations, n \in {"", "urgent"} :
            handleAssignTechnician("a1", id, t, x, h, n)
    \/ AdminRefetch("a1")
    \/ AssignTaskInsert("a1")

SpecAssign == Init /\ [][NextAssign]_vars

\* The Assign dialog of both variants over every drawn input, on the first
\* MaxShared appointments of the hosted store and the first entry of
\* localStorage.
NextDialogs ==
    \/ Len(appointments) < MaxShared /\ BookPending("c1", 1, timeSlots[2], ValidForm)
    \/ AdminFetch("a1")
    \/ \E id \in 0..MaxShared, t \in Technicians \cup {""},
          x \in {"", "brakes"}, h \in Durations :
            handleAssignTechnician("a1", id, t, x, h, "")
    \/ AdminRefetch("a1")
    \/ AssignTaskInsert("a1")
    \/ LocalAdminLoad
    \/ \E k \in {0, 1}, t \in LocalTechnicianNames \cup {""},
          x \in {"", "brakes"}, h \in Durations : LocalAssign(k, t, x, h)

SpecDialogs == Init /\ [][NextDialogs]_vars

\* The AuthProvider of one browser and the admin's TechnicianManagement.  The
\* table starts with the technician profile t2 not approved: a row as the
\* Approve and Reject buttons of TechnicianManagement are shown for.
LoginUsers == {"c1", "t2"} \cup Registrants

InitAuth ==
    /\ appointments = << >>
    /\ tasks = << >>
    /\ book = [c \in Customers |-> IdleBook]
    /\ overlapped = FALSE
    /\ lastBook = NoBook
    /\ adminList = [a \in Admins |-> << >>]
    /\ adminError = [a \in Admins |-> FALSE]
    /\ adminOp = [a \in Admins |-> IdleOp]
    /\ localStore = [i \in 1..MaxLocal |-> LocalEntry(i)]
    /\ localAdmin = << >>
    /\ techList = [t \in TechnicianSessions |-> << >>]
    /\ res = NoCall
    /\ toast = NoToast
    /\ profiles = [u \in Accounts |->
                      IF u \in Namesakes THEN [SeedProfile(u) EXCEPT !.is_approved = FALSE]
                      ELSE SeedProfile(u)]
    /\ sbSession = NULL
    /\ auth = NoAuth
    /\ authOp = IdleAuthOp
    /\ fetches = {}
    /\ techAdmin = NoTechnicians
    /\ request = NoRequest

NextAuth ==
    \/ \E u \in LoginUsers : LoginSignIn(u)
    \/ LoginProfileCheck
    \/ LoginSignOut
    \/ logout
    \/ SessionRestore
    \/ \E f \in fetches : ProfileQuery(f)
    \/ \E f \in fetches : ProfileApply(f)
    \/ \E u \in Registrants, role \in {"customer", "technician"} :
            RegisterSignUp(u, "Nora New", role)
    \/ RegisterInsert
    \/ fetchTechnicians("a1")
    \/ \E u \in Accounts : handleApproveTechnician("a1", u)
    \/ \E u \in Accounts : handleRejectTechnician("a1", u)

SpecAuth == InitAuth /\ [][NextAuth]_vars

\* Updates of the profile of t2, a technician awaiting approval: requests of
\* t2, of a customer and of an admin, and the admin's TechnicianManagement.
NextProfiles ==
    \/ \E caller \in {"c1", "t2", "a1"}, change \in ProfileChanges :
            UpdateProfileRequest(caller, "t2", change)
    \/ fetchTechnicians("a1")
    \/ \E u \in Accounts : handleApproveTechnician("a1", u)
    \/ \E u \in Accounts : handleRejectTechnician("a1", u)

SpecProfiles == InitAuth /\ [][NextProfiles]_vars

\* Row-level security of one stored appointment of customer c1, drawn over its
\* status and its technician, under requests of its customer, of another
\* customer, of an approved technician (t1), of a technician awaiting approval
\* (t2) and of an admin.
AccessCallers == {"c1", "c2", "t1", "t2", "a1"}

AccessRow(status, technician) ==
    [StoredRow("c1", 2, status) EXCEPT !.technician_id = technician]

InitAccess ==
    /\ appointments \in { << AccessRow(status, technician) >> :
                             status \in appointment_status,
                             technician \in {NULL} \cup TechnicianSessions }
    /\ tasks = << >>
    /\ book = [c \in Customers |-> IdleBook]
    /\ overlapped = FALSE
    /\ lastBook = NoBook
    /\ adminList = [a \in Admins |-> << >>]
    /\ adminError = [a \in Admins |-> FALSE]
    /\ adminOp = [a \in Admins |-> IdleOp]
    /\ localStore = [i \in 1..MaxLocal |-> LocalEntry(i)]
    /\ localAdmin = << >>
    /\ techList = [t \in TechnicianSessions |-> << >>]
    /\ res = NoCall
    /\ toast = NoToast
    /\ profiles = [u \in Accounts |->
                      IF u \in Namesakes THEN [SeedProfile(u) EXCEPT !.is_approved = FALSE]
                      ELSE SeedProfile(u)]
    /\ sbSession = NULL
    /\ auth = NoAuth
    /\ authOp = IdleAuthOp
    /\ fetches = {}
    /\ techAdmin = NoTechnicians
    /\ request = NoRequest

NextAccess ==
    \E caller \in AccessCallers, change \in AppointmentChanges :
        UpdateAppointmentRequest(caller, 1, change)

SpecAccess == InitAccess /\ [][NextAccess]_vars

\* Row-level security of the tasks of one appointment assigned to t1: two
\* task rows drawn over their status, under status updates requested by the
\* assigned technician, a technician awaiting approval, an admin and a
\* customer.
TaskRow(status) ==
    [appointment_id |-> 1, technician_id |-> "t1", task_description |-> "brakes",
     estimated_duration_hours |-> 2, status |-> status]

InitTasks ==
    /\ appointments = << AccessRow("approved", "t1") >>
    /\ tasks \in { << TaskRow(first), TaskRow(second) >> :
                      first \in task_status, second \in task_status }
    /\ book = [c \in Customers |-> IdleBook]
    /\ overlapped = FALSE
    /\ lastBook = NoBook
    /\ adminList = [a \in Admins |-> << >>]
    /\ adminError = [a \in Admins |-> FALSE]
    /\ adminOp = [a \in Admins |-> IdleOp]
    /\ localStore = [i \in 1..MaxLocal |-> LocalEntry(i)]
    /\ localAdmin = << >>
    /\ techList = [t \in TechnicianSessions |-> << >>]
    /\ res = NoCall
    /\ toast = NoToast
    /\ profiles = [u \in Accounts |->
                      IF u \in Namesakes THEN [SeedProfile(u) EXCEPT !.is_approved = FALSE]
                      ELSE SeedProfile(u)]
    /\ sbSession = NULL
    /\ auth = NoAuth
    /\ authOp = IdleAuthOp
    /\ fetches = {}
    /\ techAdmin = NoTechnicians
    /\ request = NoRequest

NextTasks ==
    \E caller \in {"t1", "t2", "a1", "c1"}, k \in {1, 2},
       status \in task_status \cup {"cancelled"} :
        UpdateTaskRequest(caller, k, status)

SpecTasks == InitTasks /\ [][NextTasks]_vars

\* Creation of appointments: both booking forms of the customers, and insert
\* requests of two customers, an admin and a technician for themselves and
\* for customer c1.
InsertCallers == {"c1", "c2", "a1", "t1"}

NextInsert ==
    \/ \E caller \in InsertCallers :
          \E customer_id \in {caller, "c1"} : InsertAppointmentRequest(caller, customer_id)
    \/ \E c \in Customers : BookPending(c, 1, timeSlots[1], ValidForm)
    \/ \E c \in Customers : BookCheck(c, 1, timeSlots[1], ValidForm)
    \/ \E c \in Customers : BookInsert(c)

SpecInsert == Init /\ [][NextInsert]_vars

\* Local-storage variant with the dashboards of two technician profiles of the
\* same full name, on the first MaxShared entries of localStorage.
NextTechs ==
    \/ LocalAdminLoad
    \/ \E k \in 1..MaxShared : LocalApprove(k)
    \/ \E k \in 1..MaxShared : LocalReject(k, "no capacity")
    \/ \E k \in 1..MaxShared, t \in LocalTechnicianNames :
            LocalAssign(k, t, "brakes", "2")
    \/ \E k \in 1..MaxShared : LocalComplete(k)
    \/ \E t \in TechnicianSessions : TechLoad(t)
    \/ \E t \in TechnicianSessions, k \in 1..MaxShared : handleStartJob(t, k)
    \/ \E t \in TechnicianSessions, k \in 1..MaxShared : handleCompleteJob(t, k)

SpecTechs == Init /\ [][NextTechs]_vars

\* Local-storage variant.
NextLocal ==
    \/ LocalAdminLoad
    \/ \E k \in 1..MaxLocal : LocalApprove(k)
    \/ \E k \in 1..MaxLocal, r \in RejectReasons : LocalReject(k, r)
    \/ \E k \in 1..MaxLocal, t \in LocalTechnicianNames \cup {""},
          x \in {"", "brakes"}, h \in Durations : LocalAssign(k, t, x, h)
    \/ \E k \in 1..MaxLocal : LocalComplete(k)
    \/ \E t \in Technicians : TechLoad(t)
    \/ \E t \in Technicians, k \in 1..MaxLocal : handleStartJob(t, k)
    \/ \E t \in Technicians, k \in 1..MaxLocal : handleCompleteJob(t, k)

SpecLocal == Init /\ [][NextLocal]_vars

(***************************************************************************)
(* Claims.                                                                 *)
(***************************************************************************)
Completed(i) == appointments[i].status = "completed"
AllTasksCompleted(i) == \A k \in TasksOf(i) : tasks[k].status = "completed"
InFlight(i) == \E a \in Admins : adminOp[a].kind # "idle" /\ adminOp[a].id = i

\* C1 (as claimed): once the operation that completed an appointment has ended,
\* every task linked to a completed appointment is completed.
C1_CascadeInvariant ==
    \A i \in 1..Len(appointments) :
        (Completed(i) /\ ~InFlight(i)) => AllTasksCompleted(i)

\* a step that ends a Complete in which the appointment write or the task
\* write failed
CompleteEndsWithFailure(a) ==
    /\ adminOp[a].kind = "complete"
    /\ adminOp'[a].kind = "idle"
    /\ (~adminOp[a].writeOk \/ toast'.title = "Failed to complete appointment")

\* the stores appts, tsks hold appointment i and its tasks all completed, or
\* as they were when handler op began
AllOrNothing(appts, tsks, op) ==
    LET mine == {k \in 1..Len(tsks) : tsks[k].appointment_id = op.id}
    IN  \/ /\ appts[op.id].status = "completed"
           /\ \A k \in mine : tsks[k].status = "completed"
        \/ /\ appts[op.id].status = op.beforeStatus
           /\ \A k \in mine : tsks[k].status = op.beforeTasks[k]

\* C2 (as claimed): a Complete in which the appointment write or the task write
\* failed ends with the appointment completed and all its tasks completed, or
\* with the appointment's status and its tasks' statuses as they were.
C2_CompleteAllOrNothing ==
    [][\A a \in Admins :
         CompleteEndsWithFailure(a) => AllOrNothing(appointments', tasks', adminOp[a])]_vars

SameSlot(i, j) ==
    /\ appointments[i].appointment_date = appointments[j].appointment_date
    /\ appointments[i].appointment_time = appointments[j].appointment_time

Blocking(i) == appointments[i].status \in {"pending", "approved"}

\* C3 (as claimed): bookings executed one at a time never leave two pending
\* or approved appointments on the same date and time.
C3_SlotUniqueness ==
    ~overlapped =>
        \A i, j \in 1..Len(appointments) :
            (i # j /\ Blocking(i) /\ Blocking(j)) => ~SameSlot(i, j)

\* C4 (as claimed): the availability check of a booking reports the slot
\* unavailable exactly when some pending or approved appointment, of any
\* customer, holds that date and time.
C4_AvailabilityIffOccupied ==
    \A c \in Customers :
        book[c].pc = "insert" => (book[c].isAvailable <=> ~book[c].occupied)

LifecycleGraph ==
    { <<"pending", "approved">>, <<"pending", "rejected">>,
      <<"approved", "in_progress">>, <<"approved", "completed">>,
      <<"in_progress", "completed">> }

\* C5 (as claimed): every change of an appointment's status is an edge of the
\* lifecycle graph pending->approved, pending->rejected, approved->in_progress,
\* approved->completed, in_progress->completed.
C5_TransitionsFollowGraph ==
    [][\A i \in 1..Len(appointments) :
         appointments'[i].status # appointments[i].status =>
            <<appointments[i].status, appointments'[i].status>> \in LifecycleGraph]_vars

\* C6 (as claimed): a stored status of rejected or completed never changes.
C6_TerminalStatuses ==
    [][\A i \in 1..Len(appointments) :
         appointments[i].status \in {"rejected", "completed"} =>
            appointments'[i].status = appointments[i].status]_vars

\* C7 (as claimed): every status in either store is one of the five values of
\* the appointment_status type.
C7_StatusDomain ==
    /\ \A i \in 1..Len(appointments) : appointments[i].status \in appointment_status
    /\ \A k \in 1..Len(localStore) : localStore[k].status \in appointment_status

\* C8 (as claimed): an appointment booked in the auto-approval mode is stored at
\* a time the availability check reported free during that booking.
C8_StoredTimeWasCheckedFree ==
    \A i \in 1..Len(appointments) :
        appointments[i].mode = "auto" =>
            \E t \in appointments[i].freeSeen :
                convertTimeToDBFormat(t) = appointments[i].appointment_time

\* C9 (as claimed): a booking for which the probe sequence finds no slot inserts
\* no appointment.
C9_NoRowWhenUnresolvable ==
    \A i \in 1..Len(appointments) :
        appointments[i].mode = "auto" => appointments[i].resolvable

FivePM == timeSlots[Len(timeSlots)]

\* C10 (as claimed): the resolver called for 5:00 PM on a date where 5:00 PM is
\* occupied fails with the no-available-slot error after one availability check.
C10_FivePMOccupiedFails ==
    (res.called /\ res.time = FivePM /\ res.occupied) =>
        /\ ~res.result.ok
        /\ res.result.checks = 1
        /\ res.result.error = "No available time slots for this date"

HourOf(time) == convertTimeToDBFormat(time).hh

\* C11: a call of findAvailableTimeSlot ends by returning a time or by failing,
\* after at most 10 availability checks, none of them (but the first) of a
\* candidate whose hour is 17 or later; a failure without a store error is the
\* hour ceiling met by the next candidate, or the tenth check used up before it.
C11_BoundedSearch ==
    res.called =>
        LET r == res.result
            last == r.probed[Len(r.probed)]
        IN  /\ r.checks = Len(r.probed)
            /\ r.checks >= 1 /\ r.checks <= maxAttempts
            /\ \A k \in 2..Len(r.probed) : HourOf(r.probed[k]) < 17
            /\ r.ok <=> r.error = ""
            /\ r.error = "No available time slots for this date" =>
                    HourOf(calculateDelayedTime(last)) >= 17
            /\ r.error = "Unable to find an available time slot" =>
                    /\ r.checks = maxAttempts
                    /\ HourOf(calculateDelayedTime(last)) < 17

C11_TenChecksUsed ==
    /\ res.called /\ ~res.result.ok
    /\ res.result.checks = maxAttempts
    /\ res.result.error = "Unable to find an available time slot"

RECURSIVE Delayed(_, _)
Delayed(time, k) == IF k = 0 THEN time ELSE calculateDelayedTime(Delayed(time, k - 1))

FreeAt(k) == checkTimeSlotAvailability(res.uid, res.date, Delayed(res.time, k))

\* C12: the time findAvailableTimeSlot returns is the first of requested,
\* requested + 30 min, requested + 60 min, ... that the availability check
\* reports free, and isOriginal is true exactly when it is the requested time.
C12_EarliestFree ==
    (res.called /\ res.result.ok) =>
        /\ \E k \in 0..(maxAttempts - 1) :
              /\ res.result.time = Delayed(res.time, k)
              /\ FreeAt(k)
              /\ \A j \in 0..(k - 1) : ~FreeAt(j)
        /\ res.result.isOriginal <=> (res.result.time = res.time)

C12_LaterTimeReturned ==
    /\ res.called /\ res.result.ok
    /\ ~res.result.isOriginal
    /\ res.result.checks >= 3
    /\ res.result.time = Delayed(res.time, res.result.checks - 1)

AutoRows == {i \in 1..Len(appointments) : appointments[i].mode = "auto"}

\* C13: an appointment created by the auto-approval booking is approved; it
\* has no admin notes exactly when it is stored at the requested time, and
\* otherwise it is stored 30 minutes later with notes that record the
\* requested time and the rescheduling.
C13_AutoApprovedWithNotes ==
    \A i \in AutoRows :
        LET row == appointments[i]
            atRequested == row.appointment_time = convertTimeToDBFormat(row.req)
        IN  /\ row.status = "approved"
            /\ (row.admin_notes = NoNotes) <=> atRequested
            /\ ~atRequested =>
                  /\ row.admin_notes = RescheduledNotes(row.req)
                  /\ row.appointment_time =
                        convertTimeToDBFormat(calculateDelayedTime(row.req))

C13_RescheduledRow ==
    \E i, j \in AutoRows :
        /\ appointments[i].appointment_time = convertTimeToDBFormat(appointments[j].req)
        /\ appointments[i].status = "approved"
        /\ appointments[j].status = "approved"
        /\ appointments[j].admin_notes = RescheduledNotes(appointments[j].req)
        /\ appointments[j].appointment_time # convertTimeToDBFormat(appointments[j].req)

\* C14: the insert of a booking stores the row decided at the availability
\* check, approved and at the time chosen then, whatever the store holds by
\* the time of the insert: a store error is the only thing that stops it.
C14_InsertUnconditional ==
    [][\A c \in Customers :
         (book[c].pc = "insert" /\ book'[c].pc = "idle") =>
            \/ /\ appointments' = appointments
               /\ toast'.title = "Failed to book appointment"
            \/ /\ appointments' = Append(appointments, BookedRow(c, book[c]))
               /\ BookedRow(c, book[c]).status = "approved"
               /\ BookedRow(c, book[c]).appointment_time =
                     convertTimeToDBFormat(book[c].finalTime)]_vars

\* two customers, the same slot, both checks saw it free (the second check ran
\* before the first insert), both stored approved
C14_DoubleBooked ==
    \E i, j \in AutoRows :
        /\ i < j
        /\ appointments[i].customer_id # appointments[j].customer_id
        /\ SameSlot(i, j)
        /\ appointments[i].status = "approved" /\ appointments[j].status = "approved"
        /\ appointments[i].admin_notes = NoNotes /\ appointments[j].admin_notes = NoNotes
        /\ appointments[j].checkedAt < i

InvalidYear(year) == year = NaN \/ year < 1900 \/ year > CurrentYear + 2

InvalidInput(date, time, form) ==
    \/ ~RequiredFilled(date, time, form)
    \/ form.fault > 200
    \/ form.reason > 500
    \/ InvalidYear(parseInt(form.vehicleYear))

\* C15 (as claimed): in both booking modes a submission with a missing field, an
\* over-long fault or reason, or an invalid vehicle year makes no store call,
\* and no stored appointment carries such values.
C15_InvalidInputRejected ==
    /\ (lastBook.called /\ InvalidInput(lastBook.date, lastBook.time, lastBook.form))
          => ~lastBook.storeCall
    /\ \A i \in 1..Len(appointments) :
          /\ ~InvalidYear(appointments[i].vehicle_year)
          /\ appointments[i].fault_length <= 200
          /\ appointments[i].reason_length <= 500

\* the appointment write of an Assign: row op.id approved with the chosen
\* technician, every other row as it was
AssignWrote(before, after, op) ==
    /\ Len(after) = Len(before)
    /\ \A i \in 1..Len(before) : i # op.id => after[i] = before[i]
    /\ after[op.id].status = "approved"
    /\ after[op.id].technician_id = op.technician

\* the task insert of an Assign: one new row for op.id, assigned to the chosen
\* technician with the entered duration, every other task as it was
AssignInserted(before, after, op) ==
    /\ Len(after) = Len(before) + 1
    /\ \A k \in 1..Len(before) : after[k] = before[k]
    /\ after[Len(after)].appointment_id = op.id
    /\ after[Len(after)].technician_id = op.technician
    /\ after[Len(after)].status = "assigned"
    /\ after[Len(after)].estimated_duration_hours = op.hours

AssignWriteStep(a) ==
    adminOp[a].kind = "idle" /\ adminOp'[a].kind = "assign" /\ adminOp'[a].writeOk

\* C16: an Assign whose two writes succeed sets the appointment approved with
\* the chosen technician and appends exactly one task for it, assigned to that
\* technician with the entered duration; its steps change no other appointment
\* and no other task.
C16_AssignPostcondition ==
    [][\A a \in Admins :
         /\ AssignWriteStep(a) =>
               AssignWrote(appointments, appointments', adminOp'[a]) /\ tasks' = tasks
         /\ (adminOp[a].kind = "assign" /\ adminOp[a].pc = "fetch"
               /\ adminOp'[a].pc = "task") =>
               appointments' = appointments /\ tasks' = tasks
         /\ (adminOp[a].kind = "assign" /\ adminOp[a].pc = "task" /\ adminOp[a].writeOk
               /\ adminOp'[a].kind = "idle" /\ toast'.title = "Technician Assigned") =>
               /\ AssignInserted(tasks, tasks', adminOp[a])
               /\ appointments' = appointments
               /\ appointments[adminOp[a].id].status = "approved"
               /\ appointments[adminOp[a].id].technician_id = adminOp[a].technician]_vars

C16_Assigned ==
    /\ toast = Shown("a1", "Technician Assigned")
    /\ \E i \in 1..Len(appointments) :
          /\ appointments[i].status = "approved"
          /\ appointments[i].technician_id = "t1"
          /\ Cardinality(TasksOf(i)) = 1
          /\ \A k \in TasksOf(i) :
                /\ tasks[k].technician_id = "t1"
                /\ tasks[k].status = "assigned"
                /\ tasks[k].estimated_duration_hours = 2
    /\ \E j \in 1..Len(appointments) :
          appointments[j].status = "pending" /\ TasksOf(j) = {}

\* C17 (as claimed): when the appointment write of an Assign succeeds, the
\* appointment is approved with technician_id the chosen technician and
\* estimated_duration_hours the entered duration.
C17_AssignSetsBothFields ==
    [][\A a \in Admins :
         AssignWriteStep(a) =>
            /\ AssignWrote(appointments, appointments', adminOp'[a])
            /\ appointments'[adminOp'[a].id].estimated_duration_hours = adminOp'[a].hours]_vars

Incomplete(id, technician, taskText, duration) ==
    id = 0 \/ technician = "" \/ taskText = "" \/ duration = ""

\* C18: an Assign with no selected appointment, no technician, an empty task
\* description or an empty duration shows the error and writes nothing, in the
\* hosted-store variant and in the local-storage variant.
C18_IncompleteAssignWritesNothing ==
    [][/\ \A id \in 0..MaxShared, t \in Technicians \cup {""}, x \in {"", "brakes"},
            h \in Durations :
            (Incomplete(id, t, x, h) /\ handleAssignTechnician("a1", id, t, x, h, "")) =>
                /\ toast' = Shown("a1", "Please fill in all assignment fields")
                /\ appointments' = appointments
                /\ tasks' = tasks
       /\ \A k \in {0, 1}, t \in LocalTechnicianNames \cup {""}, x \in {"", "brakes"},
            h \in Durations :
            (Incomplete(k, t, x, h) /\ LocalAssign(k, t, x, h)) =>
                /\ toast' = Shown("a1", "Please fill in all assignment fields")
                /\ localStore' = localStore]_vars

C18_RefusedAssign ==
    /\ toast = Shown("a1", "Please fill in all assignment fields")
    /\ \E i \in 1..Len(appointments) :
          /\ Listed("a1", i, "pending")
          /\ appointments[i].status = "pending"
          /\ appointments[i].technician_id = NULL
          /\ appointments[i].admin_notes = NoNotes
          /\ TasksOf(i) = {}
    /\ \E k \in 1..Len(localStore) :
          LocalListed(k, "pending") /\ localStore[k].status = "pending"

\* C19 (as claimed): for a listed appointment that is approved and has no
\* technician, the admin can perform Assign.
C19_AssignAvailableWhenApproved ==
    \A id \in 1..Len(appointments) :
        (/\ Listed("a1", id, "approved")
         /\ adminList["a1"][id].technicianId = NULL
         /\ appointments[id].status = "approved"
         /\ appointments[id].technician_id = NULL
         /\ Len(tasks) < MaxTasks)
            => ENABLED handleAssignTechnician("a1", id, "t1", "brakes", "2", "")

\* C20: a Reject without a reason changes nothing in the store; a step that
\* makes an appointment rejected sets its rejection_reason to the reason
\* supplied; every rejected appointment has a non-empty rejection_reason.
C20_RejectNeedsReason ==
    [][/\ \A id \in 1..MaxAppts :
            handleReject("a1", id, "") =>
                /\ appointments' = appointments
                /\ tasks' = tasks
       /\ \A i \in 1..Len(appointments) :
            (appointments[i].status # "rejected" /\ appointments'[i].status = "rejected") =>
                /\ appointments[i].status = "pending"
                /\ \E r \in RejectReasons \ {""} :
                      /\ handleReject("a1", i, r)
                      /\ appointments'[i].rejection_reason = r
       /\ \A i \in 1..Len(appointments') :
            appointments'[i].status = "rejected" =>
                appointments'[i].rejection_reason \notin {NULL, ""}]_vars

C20_Rejected ==
    \E i \in 1..Len(appointments) :
        /\ appointments[i].status = "rejected"
        /\ appointments[i].rejection_reason = "no capacity"
        /\ adminOp["a1"].kind = "idle"
        /\ toast = Shown("a1", "Appointment Rejected")

\* the value Start stores (its spelling is what C7 is about)
StartedStatuses == {"in_progress", "in-progress"}

\* technician t is offered Start Job for the stored appointment e
StartOffered(t, e) ==
    \E k \in 1..Len(techList[t]) :
        techList[t][k].id = localStore[e].id /\ techList[t][k].status = "approved"

\* the step puts stored appointment e into the started status
StartStep(e) ==
    /\ localStore[e].status \notin StartedStatuses
    /\ localStore'[e].status \in StartedStatuses

\* C21 (as claimed): a stored appointment is put into in_progress only by the
\* Start of a technician's dashboard that lists it as approved, and Start of
\* an appointment is offered to one technician profile at most: never to a
\* second profile of the same full name.
C21_OnlyAssignedTechnicianStarts ==
    [][\A e \in 1..Len(localStore) :
         /\ StartStep(e) =>
               \E t \in TechnicianSessions, k \in 1..MaxLocal :
                  /\ handleStartJob(t, k)
                  /\ techList[t][k].id = localStore[e].id
         /\ Cardinality({t \in TechnicianSessions : StartOffered(t, e)}) <= 1]_vars

\* the step ends a register call that returned success
RegistrationCompletes ==
    authOp.kind = "register" /\ authOp'.kind = "idle" /\ authOp'.result.success

\* C22 (as claimed): when a registration completes, the stored profile of the
\* new user has the role registered for, with is_approved true for a customer
\* and false for a technician; a technician's is_approved turns true only in
\* an admin's approve action.
C22_RegistrationApproval ==
    [][/\ RegistrationCompletes =>
            /\ profiles'[authOp.uid].exists
            /\ profiles'[authOp.uid].role = authOp.role
            /\ profiles'[authOp.uid].is_approved = (authOp.role = "customer")
       /\ \A u \in Accounts :
            (/\ profiles[u].role = "technician"
             /\ ~profiles[u].is_approved /\ profiles'[u].is_approved) =>
                \E a \in Admins : handleApproveTechnician(a, u)]_vars

Unapproved(u) ==
    u \in Accounts /\ profiles[u].role = "technician" /\ ~profiles[u].is_approved

\* the step ends a login call
LoginEnds == authOp.kind \in {"idle", "login"} /\ authOp'.kind = "idle"
                /\ authOp'.result # authOp.result /\ authOp'.result.of = "login"

\* C24 (as claimed): the session of the provider, and the session its client
\* holds, never belong to a technician profile that is not approved; a login
\* of a technician that is not approved returns failure and leaves no session.
C24_ApprovalGatesSession ==
    [][/\ ~Unapproved(auth.session) /\ ~Unapproved(auth.user) /\ ~Unapproved(sbSession)
       /\ (LoginEnds /\ Unapproved(authOp'.result.uid)) =>
             /\ ~authOp'.result.success
             /\ sbSession' = NULL
             /\ auth'.session = NULL /\ auth'.user = NULL]_vars

\* C23 (as claimed): the role and is_approved of a profile change only in a
\* step of a caller whose role is admin: an admin's Approve or Reject, or an
\* admin's update request.
C23_PrivilegedFieldsAdminOnly ==
    [][\A u \in Accounts :
         (/\ profiles[u].exists
          /\ \/ profiles'[u].role # profiles[u].role
             \/ profiles'[u].is_approved # profiles[u].is_approved) =>
            \/ \E a \in Admins :
                  /\ get_user_role(a) = "admin"
                  /\ handleApproveTechnician(a, u) \/ handleRejectTechnician(a, u)
            \/ /\ request'.caller \in Accounts
               /\ get_user_role(request'.caller) = "admin"
               /\ UpdateProfileRequest(request'.caller, u, request'.change)]_vars

(***************************************************************************)
(* C25, C26: update policies of the appointments table.                    *)
(***************************************************************************)
\* the latest step was an update request on appointment 1 that reached the
\* policies (the store itself did not fail)
UpdateAnswered(caller) ==
    /\ request'.caller = caller
    /\ request'.table = "appointments" /\ request'.op = "update"
    /\ request'.outcome # "error"

OwnPending(c, row) == row.customer_id = c /\ row.status = "pending"

\* C25: a customer's update of their own appointment is applied only while
\* the appointment is pending; on any other appointment it is rejected with
\* an error and changes nothing; and no customer update moves an appointment
\* out of pending.
C25_CustomerUpdatesOnlyPending ==
    [][\A c \in Customers :
         (UpdateAnswered(c) /\ get_user_role(c) = "customer") =>
            LET row == appointments[1]
                new == Changed(row, request'.change)
            IN  IF OwnPending(c, row)
                THEN /\ OwnPending(c, new) =>
                          (request'.outcome = "updated" /\ appointments'[1] = new)
                     /\ new.status # "pending" => appointments' = appointments
                ELSE /\ appointments' = appointments
                     /\ request'.outcome = "rejected"]_vars

\* the same without the explicit failure: an update of an appointment that is
\* not the customer's own pending one changes nothing
C25_NoChangeUnlessOwnPending ==
    [][\A c \in Customers :
         (UpdateAnswered(c) /\ get_user_role(c) = "customer"
            /\ ~OwnPending(c, appointments[1])) => appointments' = appointments]_vars

\* the fields of an appointment other than its status
OtherFields(row) == [row EXCEPT !.status = ""]

\* C26: an update a technician makes to an appointment is applied only when
\* the technician is the appointment's technician_id, has role technician and
\* is approved, and it changes no field other than status.
C26_TechnicianUpdatesStatusOnly ==
    [][\A t \in TechnicianSessions :
         (UpdateAnswered(t) /\ get_user_role(t) = "technician"
            /\ appointments' # appointments) =>
               /\ appointments[1].technician_id = t
               /\ is_user_approved(t)
               /\ OtherFields(appointments'[1]) = OtherFields(appointments[1])]_vars

\* the same without the restriction to the status field
C26_TechnicianUpdatesAssignedOnly ==
    [][\A t \in TechnicianSessions :
         (UpdateAnswered(t) /\ get_user_role(t) = "technician"
            /\ appointments' # appointments) =>
               /\ appointments[1].technician_id = t
               /\ is_user_approved(t)]_vars

(***************************************************************************)
(* C27: who creates appointments, and for whom.                            *)
(***************************************************************************)
InsertAnswered(caller, customer_id) ==
    /\ request'.caller = caller /\ request'.owner = customer_id
    /\ request'.table = "appointments" /\ request'.op = "insert"
    /\ InsertAppointmentRequest(caller, customer_id)

Added == Len(appointments') = Len(appointments) + 1

LastRow == appointments'[Len(appointments')]

\* C27: an appointment is created only by a caller of role customer as a row
\* whose customer_id is the caller; an insert by an admin or a technician, or
\* one that names another user, is rejected and adds nothing; and a row a
\* booking form creates has the customer_id of the user whose form it is.
C27_InsertOnlyOwnByCustomer ==
    [][/\ \A caller \in Accounts, customer_id \in Accounts :
            (InsertAnswered(caller, customer_id) /\ request'.outcome # "error") =>
                IF get_user_role(caller) = "customer" /\ customer_id = caller
                THEN request'.outcome = "inserted"
                ELSE request'.outcome = "rejected" /\ appointments' = appointments
       /\ appointments' # appointments =>
            /\ Added
            /\ SubSeq(appointments', 1, Len(appointments)) = appointments
            /\ get_user_role(LastRow.customer_id) = "customer"
            /\ \/ InsertAnswered(LastRow.customer_id, LastRow.customer_id)
               \/ BookInsert(LastRow.customer_id)
               \/ BookPending(LastRow.customer_id, lastBook'.date, lastBook'.time,
                              lastBook'.form)]_vars

\* rows of both booking forms are stored, and the latest insert request, by a
\* caller who is not a customer, was rejected
C27_InsertDenied ==
    /\ request.op = "insert" /\ request.outcome = "rejected"
    /\ get_user_role(request.caller) \in {"admin", "technician"}
    /\ \E i, j \in 1..Len(appointments) :
          /\ appointments[i].mode = "auto" /\ appointments[j].mode = "manual"
          /\ appointments[i].customer_id # appointments[j].customer_id

(***************************************************************************)
(* C28: the manual-review booking.                                         *)
(***************************************************************************)
PendingBooked(c) ==
    /\ lastBook'.called /\ lastBook'.uid = c /\ lastBook'.mode = "manual"
    /\ BookPending(c, lastBook'.date, lastBook'.time, lastBook'.form)
    /\ toast' = Shown(c, "Appointment Booked!")

\* C28: a manual-review booking that reports success has added exactly one
\* appointment: pending, of the customer, at the requested date and time,
\* without admin notes and without an availability check having been made,
\* whatever the slot already holds.
C28_PendingBookingAddsOnePendingRow ==
    [][\A c \in Customers :
         PendingBooked(c) =>
            /\ Added
            /\ SubSeq(appointments', 1, Len(appointments)) = appointments
            /\ LastRow.customer_id = c
            /\ LastRow.status = "pending"
            /\ LastRow.admin_notes = NoNotes
            /\ LastRow.technician_id = NULL
            /\ LastRow.appointment_date = lastBook'.date
            /\ LastRow.appointment_time = convertTimeToDBFormat(lastBook'.time)
            /\ LastRow.freeSeen = {} /\ LastRow.mode = "manual"]_vars

\* the latest step was a successful manual-review booking of a slot that an
\* earlier appointment holds
C28_PendingOnOccupiedSlot ==
    /\ toast.title = "Appointment Booked!"
    /\ Len(appointments) >= 2
    /\ LET new == appointments[Len(appointments)]
       IN  /\ new.mode = "manual" /\ new.status = "pending"
           /\ \E i \in 1..(Len(appointments) - 1) :
                 /\ appointments[i].status \in BlockingStatuses
                 /\ appointments[i].appointment_date = new.appointment_date
                 /\ appointments[i].appointment_time = new.appointment_time

(***************************************************************************)
(* C29: store errors during the auto-approval booking.                     *)
(***************************************************************************)
GenericFailures == {"An unexpected error occurred", "Failed to book appointment"}

\* handleSubmit of c ended at the availability query
QueryFailed(c) ==
    /\ lastBook'.called /\ lastBook'.uid = c /\ lastBook'.mode = "auto"
    /\ lastBook'.storeCall
    /\ BookCheck(c, lastBook'.date, lastBook'.time, lastBook'.form)
    /\ book'[c].pc = "idle"

\* handleSubmit of c ended at an insert the store did not make
InsertFailed(c) == BookInsert(c) /\ ~Added

\* C29: a booking that ends with a store error, at the availability query or
\* at the insert, shows a generic failure message, adds no appointment, does
\* not call onSuccess and leaves the form as the customer filled it in.
C29_StoreErrorKeepsInput ==
    [][\A c \in Customers :
         (QueryFailed(c) \/ InsertFailed(c)) =>
            /\ toast' \in {Shown(c, title) : title \in GenericFailures}
            /\ appointments' = appointments
            /\ book'[c].pc = "idle"
            /\ ~book'[c].onSuccess
            /\ book'[c].formData =
                  IF InsertFailed(c)
                  THEN FormData(book[c].date, book[c].time, book[c].form)
                  ELSE FormData(lastBook'.date, lastBook'.time, lastBook'.form)
            /\ book'[c].formData # EmptyFormData]_vars

\* a booking has failed at the insert after another was stored: the form
\* still holds the input and onSuccess was not called
C29_InsertFailedFormKept ==
    \E c \in Customers :
        /\ toast = Shown(c, "Failed to book appointment")
        /\ book[c].pc = "idle"
        /\ book[c].formData = FormData(1, lastBook.time, ValidForm)
        /\ ~book[c].onSuccess
        /\ Len(appointments) >= 1

(***************************************************************************)
(* C30: task status.                                                       *)
(***************************************************************************)
TaskRank(status) ==
    CASE status = "assigned" -> 1
      [] status = "in_progress" -> 2
      [] status = "completed" -> 3
      [] OTHER -> 0

\* C30: no step takes the status of a task backwards along
\* assigned -> in_progress -> completed.
C30_TaskStatusForwardOnly ==
    [][\A k \in 1..Len(tasks) :
         TaskRank(tasks'[k].status) >= TaskRank(tasks[k].status)]_vars

\* the status of a task is always one the table's CHECK admits
C30_TaskStatusDomain ==
    \A k \in 1..Len(tasks) : tasks[k].status \in task_status

(***************************************************************************)
(* C31: the two writes of an Assign.                                       *)
(***************************************************************************)
\* the step that ends handleAssignTechnician after its appointment write
AssignEnds(a) ==
    /\ adminOp[a].kind = "assign" /\ adminOp[a].pc = "task"
    /\ adminOp'[a].kind = "idle"

\* C31: when an Assign ends, either the appointment is approved with the
\* chosen technician and its new task exists, or the appointment is as it was
\* before the Assign and no task was created.
C31_AssignAllOrNothing ==
    [][\A a \in Admins :
         AssignEnds(a) =>
            LET op == adminOp[a]
                row == appointments'[op.id]
            IN  \/ /\ row.status = "approved" /\ row.technician_id = op.technician
                   /\ AssignInserted(tasks, tasks', op)
                \/ /\ ~op.writeOk
                   /\ row.status = op.beforeStatus /\ row.technician_id = NULL
                   /\ tasks' = tasks]_vars

\* the same for the Assigns whose two writes the store both applied
C31_BothWritesApplied ==
    [][\A a \in Admins :
         (AssignEnds(a) /\ adminOp[a].writeOk /\ tasks' # tasks) =>
            LET op == adminOp[a]
                row == appointments'[op.id]
            IN  /\ row.status = "approved" /\ row.technician_id = op.technician
                /\ AssignInserted(tasks, tasks', op)]_vars

(***************************************************************************)
(* C32: the admin's success notifications.                                 *)
(***************************************************************************)
Announced(title) ==
    CASE title = "Appointment Approved" -> "approved"
      [] title = "Appointment Rejected" -> "rejected"
      [] title = "Technician Assigned" -> "approved"
      [] title = "Service Completed" -> "completed"
      [] OTHER -> ""

SuccessTitles ==
    {"Appointment Approved", "Appointment Rejected", "Technician Assigned",
     "Service Completed"}

\* C32: a step that shows an admin one of the success notifications ends a
\* handler whose appointment write the store applied, and the stored
\* appointment has the announced status.
C32_SuccessToastReflectsStore ==
    [][\A a \in Admins, title \in SuccessTitles :
         toast' = Shown(a, title) =>
            /\ adminOp[a].kind # "idle" /\ adminOp[a].writeOk
            /\ appointments'[adminOp[a].id].status = Announced(title)]_vars

(***************************************************************************)
(* C33: local-storage variant, updates of different appointments.          *)
(***************************************************************************)
\* the admin's status update of the k-th listed appointment
LocalAdminStep(k) ==
    \/ LocalApprove(k)
    \/ LocalComplete(k)
    \/ \E r \in RejectReasons : LocalReject(k, r)
    \/ \E t \in LocalTechnicianNames, x \in {"", "brakes"}, h \in Durations :
          LocalAssign(k, t, x, h)

\* C33: an admin's status update of one appointment leaves every other
\* stored appointment as it was, whenever the admin's list was loaded.
C33_LocalUpdateFrame ==
    [][\A k \in 1..Len(localAdmin) :
         LocalAdminStep(k) =>
            \A j \in 1..Len(localStore) :
                localStore[j].id # localAdmin[k].id => localStore'[j] = localStore[j]]_vars

\* the same for the technician's updates, which re-read the stored list
C33_TechnicianUpdateFrame ==
    [][\A t \in Technicians : \A k \in 1..Len(techList[t]) :
         (handleStartJob(t, k) \/ handleCompleteJob(t, k)) =>
            \A j \in 1..Len(localStore) :
                localStore[j].id # techList[t][k].id => localStore'[j] = localStore[j]]_vars

(***************************************************************************)
(* C34: session and profile of the AuthProvider.                           *)
(***************************************************************************)
\* C34: when the provider's session and user are null its profile is null,
\* and a profile that is not null is the profile of the session's user.
C34_ProfileFollowsSession ==
    /\ (auth.session = NULL /\ auth.user = NULL) => auth.profile = NoSnapshot
    /\ auth.profile # NoSnapshot => auth.profile.user_id = auth.user

(***************************************************************************)
(* C35: what login returns when the profile cannot be read.                *)
(***************************************************************************)
LoginSucceeds ==
    /\ authOp.kind = "login" /\ authOp'.kind = "idle"
    /\ authOp'.result.of = "login" /\ authOp'.result.success

\* C35: login returns success only for a user whose profile it has read and
\* who is not a technician awaiting approval.
C35_LoginFailsClosed ==
    [][LoginSucceeds =>
          /\ authOp'.result.role # NULL
          /\ ~(Unapproved(authOp.uid))]_vars

\* the same for the logins whose profile query was answered with the row
C35_ReadProfileIsChecked ==
    [][(LoginSucceeds /\ authOp'.result.role # NULL) => ~(Unapproved(authOp.uid))]_vars

(***************************************************************************)
(* C36: one submission of the auto-approval form at a time.                *)
(***************************************************************************)
\* handleSubmit of c was called in this step
SubmitCalled(c) ==
    /\ lastBook'.called /\ lastBook'.uid = c /\ lastBook'.mode = "auto"
    /\ BookCheck(c, lastBook'.date, lastBook'.time, lastBook'.form)

\* the step appends an appointment of the auto-approval form of c
AutoRowAdded(c) ==
    /\ Len(appointments') > Len(appointments)
    /\ appointments'[Len(appointments')].mode = "auto"
    /\ appointments'[Len(appointments')].customer_id = c

\* C36: a handleSubmit called while isSubmitting makes no store call and
\* changes nothing; a row of the form is inserted only by the submission in
\* flight, one row, which ends it; and isSubmitting is false after
\* handleSubmit has ended on a failed availability query, a failed insert or
\* a success.
C36_OneSubmissionInFlight ==
    [][\A c \in Customers :
         /\ (isSubmitting(c) /\ SubmitCalled(c)) =>
               /\ ~lastBook'.storeCall
               /\ appointments' = appointments
               /\ book' = book
         /\ AutoRowAdded(c) =>
               /\ isSubmitting(c) /\ BookInsert(c)
               /\ Len(appointments') = Len(appointments) + 1
         /\ (BookInsert(c) \/ QueryFailed(c)) => ~isSubmitting(c)']_vars

\* a handleSubmit called while the insert of the submission before it was
\* awaited has returned without a store call, and that submission's row is
\* then stored with isSubmitting false again
C36_SecondCallIgnored ==
    \E c \in Customers :
        /\ lastBook = Submitted(c, "auto", 1, lastBook.time, ValidForm, FALSE)
        /\ ~isSubmitting(c)
        /\ book[c].onSuccess
        /\ Cardinality({i \in AutoRows : appointments[i].customer_id = c}) = 1

(***************************************************************************)
(* C37: the two time conversions.                                          *)
(***************************************************************************)
\* the display times from 8:00 AM to 4:30 PM, every half hour
HalfHourGrid ==
    {Disp(h, m, "AM") : h \in 8..11, m \in {0, 30}}
        \cup {Disp(12, m, "PM") : m \in {0, 30}}
        \cup {Disp(h, m, "PM") : h \in 1..4, m \in {0, 30}}

\* a stored time as minutes since midnight
MinuteOfDay(dbTime) == dbTime.hh * 60 + dbTime.mm

\* a well-formed HH:MM:00
StoredForm(dbTime) ==
    dbTime.hh \in 0..23 /\ dbTime.mm \in 0..59 /\ dbTime.ss = 0

HalfHourLater(from, to) ==
    /\ StoredForm(convertTimeToDBFormat(to))
    /\ MinuteOfDay(convertTimeToDBFormat(to)) = MinuteOfDay(convertTimeToDBFormat(from)) + 30

\* C37: for every display time T from 8:00 AM to 4:30 PM on the half hour,
\* and for every candidate the resolver derives from the one before it,
\* convertTimeToDBFormat(calculateDelayedTime(T)) is 30 minutes after
\* convertTimeToDBFormat(T); and convertTimeToDBFormat maps the nine slot
\* labels to the nine distinct values 08:00:00, ..., 11:00:00, 13:00:00, ...,
\* 17:00:00.
C37_TimeRoundTrip ==
    /\ \A T \in HalfHourGrid : HalfHourLater(T, calculateDelayedTime(T))
    /\ \A i, j \in 1..Len(timeSlots) :
          i # j => convertTimeToDBFormat(timeSlots[i]) # convertTimeToDBFormat(timeSlots[j])
    /\ {convertTimeToDBFormat(t) : t \in SlotSet} =
          {[hh |-> h, mm |-> 0, ss |-> 0] : h \in (8..11) \cup (13..17)}
    /\ res.called =>
          \A k \in 1..(Len(res.result.probed) - 1) :
              /\ res.result.probed[k] \in HalfHourGrid
              /\ HalfHourLater(res.result.probed[k], res.result.probed[k + 1])

\* a call of the resolver whose candidates pass 11:30 AM -> 12:00 PM and
\* 12:30 PM -> 1:00 PM
C37_AcrossNoon ==
    /\ res.called
    /\ \E k \in 1..(Len(res.result.probed) - 1) :
          /\ res.result.probed[k] = Disp(11, 30, "AM")
          /\ res.result.probed[k + 1] = Disp(12, 0, "PM")
    /\ \E k \in 1..(Len(res.result.probed) - 1) :
          /\ res.result.probed[k] = Disp(12, 30, "PM")
          /\ res.result.probed[k + 1] = Disp(1, 0, "PM")

=============================================================================
